---- MODULE Spec2Model ----
(***************************************************************************)
(* autocron: the SQLite task/result store, the worker dispatch loop, the   *)
(* monitor and the host engine, as a state machine over one shared         *)
(* database file, plus the cron schedule calculator.                       *)
(*                                                                         *)
(* Every store call that runs in a BEGIN EXCLUSIVE transaction is one      *)
(* atomic action.  A store call that reads and then writes without the     *)
(* exclusive transaction (python's sqlite3 runs its SELECT in autocommit   *)
(* mode and opens the transaction only before the UPDATE) is two actions:  *)
(* the read, and the write of the values read.                             *)
(***************************************************************************)
EXTENDS Integers, Sequences, FiniteSets, TLC

\* ---------------------------------------------------------------- bounds
MaxNow == 1          \* the clock runs 0..MaxNow
MaxRegs == 1         \* register_task calls at runtime (all hosts together)
MaxPre == 1          \* register_task calls while one host imports
MaxKills == 1        \* processes killed hard (SIGKILL, OS crash)
ResultTtl == 1       \* result_ttl of the settings, in clock units
MaxCalls == 3        \* register_task calls on the interface by itself
MaxItems == 3        \* register() calls on a TaskRegistrator
MaxThreads == 2      \* threads a TaskRegistrator starts in its life
MaxBusy == 2         \* busy invocations of one init_database call
MaxWorkers == 3      \* max_workers of a Monitor by itself
MaxPids == 6         \* worker processes a Monitor by itself starts

\* ------------------------------------------------------ program constants
TASK_STATUS_WAITING == 1
TASK_STATUS_PROCESSING == 2
TASK_STATUS_READY == 3
TASK_STATUS_ERROR == 4
SQLITE_OPERATIONAL_ERROR_RETRIES == 100
\* 0.01 s, counted in units of 1/3200 s so that five increments are exact
SQLITE_OPERATIONAL_ERROR_DELAY == 32
SQLITE_DELAY_INCREMENT_STEPS == 20
SETTINGS_DEFAULT_WORKERS == 1
SETTINGS_DEFAULT_RUNNING_WORKERS == 0

\* python's None / SQL NULL in an integer column or value
NULL == -1
\* python's None in a text value (falsy, like the empty string)
NoneText == "<None>"
DEFAULT_CRONTAB == "* * * * *"

Hosts == {"h1", "h2"}
Workers == {"w1", "w2"}
Functions == {"tst_add", "tst_cron", "tst_fail", "tst_gone"}
\* the uuid4 values drawn at runtime, and those drawn while host h imports
Uuids == <<"u1", "u2", "u3", "u4", "u5">>
PreUuids == [h \in Hosts |-> IF h = "h1" THEN <<"p1", "p2", "p3">>
                                           ELSE <<"q1", "q2", "q3">>]

AllUuids ==
    {Uuids[i] : i \in 1..Len(Uuids)}
        \cup UNION {{PreUuids[h][i] : i \in 1..Len(PreUuids[h])} : h \in Hosts}

Truthy(text) == text \notin {"", NoneText}

\* pickle.dumps / pickle.loads of a value stored in a BLOB column
PickleDumps(value) == <<"pickle", value>>
PickleLoads(blob) == blob[2]

Max(S) == CHOOSE x \in S : \A y \in S : y <= x
Min(S) == CHOOSE x \in S : \A y \in S : x <= y

\* ------------------------------------------------------------ the tables
\* A table is a function from the rowids in use to the rows.
EmptyTable == <<>>

\* the rowid SQLite gives the next INSERT: one more than the largest in use
NextRowid(table) ==
    IF DOMAIN table = {} THEN 1 ELSE Max(DOMAIN table) + 1

\* Model.store: INSERT ... RETURNING rowid
ModelStore(table, row) ==
    LET rowid == NextRowid(table)
    IN  [r \in DOMAIN table \cup {rowid} |->
            IF r = rowid THEN row ELSE table[r]]

\* Model.update: UPDATE ... SET <all columns> WHERE rowid == :rowid
ModelUpdate(table, rowid, row) ==
    IF rowid \in DOMAIN table
    THEN [table EXCEPT ![rowid] = row]
    ELSE table

\* Model.delete: DELETE ... WHERE rowid == :rowid
ModelDelete(table, rowid) ==
    [r \in DOMAIN table \ {rowid} |-> table[r]]

\* the first row (in rowid order, the order of SQLite's table scan) that
\* matches; 0 when no row matches (fetchone() gives None)
\* (hits: the rowids of the matching rows)
SelectFirst(hits) == IF hits = {} THEN 0 ELSE Min(hits)

\* the columns of a task row; function_arguments is the pickled BLOB
TaskRow(uuid, schedule, status, crontab, function_name, args) ==
    [uuid |-> uuid, schedule |-> schedule, status |-> status,
     crontab |-> crontab, function_name |-> function_name,
     function_arguments |-> PickleDumps(args)]

\* Task.row_factory: a Task instance as a process holds it, the columns
\* with the arguments unpickled, and the rowid
TaskInstance(rowid, row) ==
    [rowid |-> rowid, uuid |-> row.uuid, schedule |-> row.schedule,
     status |-> row.status, crontab |-> row.crontab,
     function_name |-> row.function_name,
     args |-> PickleLoads(row.function_arguments)]

\* the column values Task.update / Task.store bind from an instance
ColumnsOf(task) ==
    TaskRow(task.uuid, task.schedule, task.status, task.crontab,
            task.function_name, task.args)

\* get_next_task returning None
NoTask == TaskInstance(0, TaskRow("", NULL, 0, "", "", <<>>))

\* the settings row written by Settings(conn).store()
SETTINGS_DEFAULT_DATA ==
    [max_workers |-> SETTINGS_DEFAULT_WORKERS,
     running_workers |-> SETTINGS_DEFAULT_RUNNING_WORKERS,
     monitor_lock |-> FALSE,
     worker_pids |-> <<>>]

\* a database file: the three tables (results keyed by uuid, the primary key)
EmptyDatabase ==
    [tasks |-> EmptyTable, results |-> <<>>, settings |-> <<>>]

\* Settings.read: the first settings row
SettingsRead(d) == d.settings[1]

\* Settings.update of the row read (rowid 1): all columns are written
SettingsUpdate(d, row) ==
    [d EXCEPT !.settings = ModelUpdate(d.settings, 1, row)]

\* ------------------------------------------------------ store operations
\* Task.get_by_function_name: any task row of the function, 0 if none
GetByFunctionName(tasks, function_name) ==
    LET Match(row) == row.function_name = function_name
    IN  SelectFirst({r \in DOMAIN tasks : Match(tasks[r])})

\* Result row stored by register_task
NewResult(function_name, args, ttl) ==
    [status |-> TASK_STATUS_WAITING, function_name |-> function_name,
     function_arguments |-> PickleDumps(args),
     function_result |-> PickleDumps(NULL),
     error_message |-> "", ttl |-> ttl]

\* a register_task that stores a crontask without looking for its function
RegisterTask_again(d, accept, func, schedule, crontab, uuid, args, nowv) ==
    IF ~accept THEN d
    ELSE [d EXCEPT !.tasks =
            ModelStore(d.tasks,
                       TaskRow(uuid, IF schedule = NULL THEN nowv ELSE schedule,
                               TASK_STATUS_WAITING, crontab, func, args))]

\* a register_task that does not look at accept_registrations
RegisterTask_accepting(d, accept, func, schedule, crontab, uuid, args, nowv) ==
    IF crontab # "" /\ GetByFunctionName(d.tasks, func) # 0
    THEN d
    ELSE LET sched == IF schedule = NULL THEN nowv ELSE schedule
             row == TaskRow(uuid, sched, TASK_STATUS_WAITING, crontab,
                            func, args)
             stored == [d EXCEPT !.tasks = ModelStore(d.tasks, row)]
         IN  IF uuid = "" \/ uuid \in DOMAIN d.results THEN stored
             ELSE [stored EXCEPT !.results =
                     [u \in DOMAIN d.results \cup {uuid} |->
                        IF u = uuid
                        THEN NewResult(func, args, nowv + ResultTtl)
                        ELSE d.results[u]]]

\* a connection that commits what the block did before it raised
ConnectionExit_commit(before, after, raised) == after

\* SQLiteConnection.__exit__: leaving the context after an exception rolls
\* back to the database as it was at __enter__, else it commits
ConnectionExit(before, after, raised) == IF raised THEN before ELSE after

\* SQLiteInterface.register_task
RegisterTask(d, accept, func, schedule, crontab, uuid, args, nowv) ==
    IF ~accept THEN d
    ELSE IF crontab # "" /\ GetByFunctionName(d.tasks, func) # 0
    THEN d      \* don't register a crontab twice
    ELSE LET sched == IF schedule = NULL THEN nowv ELSE schedule
             row == TaskRow(uuid, sched, TASK_STATUS_WAITING, crontab,
                            func, args)
             stored == [d EXCEPT !.tasks = ModelStore(d.tasks, row)]
             \* result.store(): the uuid is the primary key of the result
             \* table, a second row with it raises an IntegrityError
             raised == uuid # "" /\ uuid \in DOMAIN d.results
             after ==
                IF uuid = "" \/ raised THEN stored
                ELSE [stored EXCEPT !.results =
                        [u \in DOMAIN d.results \cup {uuid} |->
                           IF u = uuid
                           THEN NewResult(func, args, nowv + ResultTtl)
                           ELSE d.results[u]]]
         IN  ConnectionExit(d, after, raised)

\* Task._get_next_task_sql_and_data: schedule <= now AND status == WAITING
\* (a NULL schedule compares as unknown and never matches)
IsDue(row, nowv) ==
    /\ row.schedule # NULL
    /\ row.schedule <= nowv
    /\ row.status = TASK_STATUS_WAITING

\* a next_cron_task that does not look at the crontab column
NextCronTask_any(tasks, nowv) ==
    LET Match(row) == IsDue(row, nowv)
    IN  SelectFirst({r \in DOMAIN tasks : Match(tasks[r])})

\* Task.next_cron_task
NextCronTask(tasks, nowv) ==
    LET Match(row) == IsDue(row, nowv) /\ row.crontab # ""
    IN  SelectFirst({r \in DOMAIN tasks : Match(tasks[r])})

\* Task.next_task
NextTask(tasks, nowv) ==
    LET Match(row) == IsDue(row, nowv)
    IN  SelectFirst({r \in DOMAIN tasks : Match(tasks[r])})

\* a get_next_task that hands the row out without marking it
ClaimedRow_unmarked(row) == row

\* the row get_next_task writes back for the task it hands out
ClaimedRow(row) == [row EXCEPT !.status = TASK_STATUS_PROCESSING]

\* SQLiteInterface.get_next_task: the database afterwards and the task
GetNextTask(d, nowv) ==
    LET cron == NextCronTask(d.tasks, nowv)
        rowid == IF cron # 0 THEN cron ELSE NextTask(d.tasks, nowv)
    IN  IF rowid = 0 THEN [db |-> d, task |-> NoTask]
        ELSE [db |-> [d EXCEPT !.tasks =
                        ModelUpdate(d.tasks, rowid,
                                    ClaimedRow(d.tasks[rowid]))],
              task |-> TaskInstance(rowid, ClaimedRow(d.tasks[rowid]))]

\* SQLiteInterface.update_task_schedule
UpdateTaskSchedule(d, task, schedule) ==
    [d EXCEPT !.tasks =
        ModelUpdate(d.tasks, task.rowid,
                    ColumnsOf([task EXCEPT !.schedule = schedule,
                                           !.status = TASK_STATUS_WAITING]))]

\* SQLiteInterface.delete_task
DeleteTask(d, task) ==
    [d EXCEPT !.tasks = ModelDelete(d.tasks, task.rowid)]

\* update_result when Result.from_uuid finds no row: result is None and
\* the first attribute assignment raises AttributeError
UpdateResultRaises(d, uuid) == uuid \notin DOMAIN d.results

\* an update_result that sets the status and leaves function_result alone
UpdateResult_novalue(d, uuid, result, error_message, nowv) ==
    [d EXCEPT !.results[uuid] =
        [@ EXCEPT !.error_message = error_message,
                  !.status = IF Truthy(error_message)
                             THEN TASK_STATUS_ERROR ELSE TASK_STATUS_READY,
                  !.ttl = nowv + ResultTtl]]

\* SQLiteInterface.update_result (the row exists)
UpdateResult(d, uuid, result, error_message, nowv) ==
    [d EXCEPT !.results[uuid] =
        [@ EXCEPT !.function_result = PickleDumps(result),
                  !.function_arguments =
                        PickleDumps(PickleLoads(@)),
                  !.error_message = error_message,
                  !.status = IF Truthy(error_message)
                             THEN TASK_STATUS_ERROR ELSE TASK_STATUS_READY,
                  !.ttl = nowv + ResultTtl]]

\* SQLiteInterface.get_result_by_uuid / Result.row_factory: the
\* function_result of the instance read back
GetResultValue(d, uuid) == PickleLoads(d.results[uuid].function_result)

\* a delete_outdated that does not look at the status
DeleteOutdated_any(results, nowv) ==
    [u \in {x \in DOMAIN results : results[x].ttl > nowv} |-> results[u]]

\* Result.delete_outdated
DeleteOutdated(results, nowv) ==
    [u \in {x \in DOMAIN results :
                ~(results[x].status # TASK_STATUS_WAITING
                  /\ results[x].ttl <= nowv)} |-> results[u]]

\* SQLiteInterface.delete_outdated_results
DeleteOutdatedResults(d, nowv) ==
    [d EXCEPT !.results = DeleteOutdated(d.results, nowv)]

\* SQLiteInterface.acquire_monitor_lock: the database afterwards and the
\* value returned
AcquireMonitorLock(d) ==
    LET settings == SettingsRead(d)
    IN  IF ~settings.monitor_lock
        THEN [db |-> SettingsUpdate(d, [settings EXCEPT !.monitor_lock = TRUE]),
              ret |-> TRUE]
        ELSE [db |-> d, ret |-> FALSE]

\* Task.delete_crontasks
DeleteCrontasks(tasks) ==
    [r \in {x \in DOMAIN tasks : tasks[x].crontab = ""} |-> tasks[r]]

\* Task.change_status
ChangeStatus(tasks, prev_status, new_status) ==
    [r \in DOMAIN tasks |->
        IF tasks[r].status = prev_status
        THEN [tasks[r] EXCEPT !.status = new_status]
        ELSE tasks[r]]

\* the settings row tear_down_database writes
TornDownSettings(settings) ==
    [settings EXCEPT !.monitor_lock = FALSE,
                     !.running_workers = 0,
                     !.worker_pids = <<>>]

\* a tear-down that deletes the crontasks and leaves the status alone
TornDownTasks_noreset(tasks) == DeleteCrontasks(tasks)

\* what tear_down_database does to the task table
TornDownTasks(tasks) ==
    ChangeStatus(DeleteCrontasks(tasks),
                 TASK_STATUS_PROCESSING, TASK_STATUS_WAITING)

\* SQLiteInterface.tear_down_database
TearDownDatabase(d) ==
    [SettingsUpdate(d, TornDownSettings(SettingsRead(d)))
        EXCEPT !.tasks = TornDownTasks(d.tasks)]

\* the loop of init_database that copies the tasks of the temporary
\* database: task.store() for each, in the order get_tasks() returned them
RECURSIVE CopyTasks(_, _)
CopyTasks(tasks, temporary) ==
    IF DOMAIN temporary = {} THEN tasks
    ELSE LET first == Min(DOMAIN temporary)
         IN  CopyTasks(ModelStore(tasks, temporary[first]),
                       ModelDelete(temporary, first))

\* SQLiteInterface.get_tasks: Task.select_all
GetTasks(d) == d.tasks

\* SQLiteInterface._delete_database: the file is unlinked
DeleteDatabase(d) == EmptyDatabase

\* an init_database that stores the default settings whatever it reads
InitDatabase_defaults(d, temporary_tasks) ==
    [d EXCEPT !.settings = <<SETTINGS_DEFAULT_DATA>>,
              !.tasks = CopyTasks(@, temporary_tasks)]

\* an init_database that copies no more than the first of the tasks
InitDatabase_first(d, temporary_tasks) ==
    [d EXCEPT !.settings = IF d.settings = <<>>
                           THEN <<SETTINGS_DEFAULT_DATA>> ELSE @,
              !.tasks = IF DOMAIN temporary_tasks = {} THEN @
                        ELSE ModelStore(@, temporary_tasks[
                                              Min(DOMAIN temporary_tasks)])]

\* SQLiteInterface.init_database on the database file d, with the tasks
\* read from the temporary database of the calling process
InitDatabase(d, temporary_tasks) ==
    [d EXCEPT !.settings = IF d.settings = <<>>
                           THEN <<SETTINGS_DEFAULT_DATA>> ELSE @,
              !.tasks = CopyTasks(d.tasks, temporary_tasks)]

\* increment_running_workers: the row written from the row read
IncrementedSettings(settings, pid) ==
    [settings EXCEPT !.worker_pids = Append(@, pid),
                     !.running_workers = @ + 1]

\* decrement_running_workers: pids.remove(str(pid)), the first occurrence
RECURSIVE RemoveFirst(_, _)
RemoveFirst(pids, pid) ==
    IF pids = <<>> THEN <<>>
    ELSE IF Head(pids) = pid THEN Tail(pids)
    ELSE <<Head(pids)>> \o RemoveFirst(Tail(pids), pid)

InSeq(pids, pid) == \E i \in 1..Len(pids) : pids[i] = pid

\* decrement_running_workers: the row written from the row read (the
\* caller writes only when the pid is in the list)
DecrementedSettings(settings, pid) ==
    [settings EXCEPT !.worker_pids = RemoveFirst(@, pid),
                     !.running_workers =
                         Len(RemoveFirst(settings.worker_pids, pid))]

\* ------------------------------------------------------- task functions
\* the arguments the host calls a function with
ArgsOf(function_name) ==
    IF function_name = "tst_add" THEN <<40, 2>> ELSE <<>>

\* importlib.import_module / getattr find the function: tst_gone is a
\* function the worker process cannot look up (its module is the host's
\* __main__, or the name is not an attribute of the module)
Resolvable(function_name) == function_name # "tst_gone"

\* function(*task.args) raises an Exception: tst_fail always does
Raises(function_name, args) == function_name = "tst_fail"

\* repr(err) of the exception raised: never the empty string
ReprOf(function_name) == "RuntimeError('" \o function_name \o "')"

\* function(*task.args): tst_add returns a + b, tst_cron returns None
CallFunction(function_name, args) ==
    IF function_name = "tst_add" THEN args[1] + args[2] ELSE NULL

\* the deployments: the application processes that run (in the order of
\* their names), the workers argument they pass to Engine.start (NULL: not
\* given), the worker processes the operating system can start, and the
\* kinds of process that may get killed
Deployments ==
    {[hosts |-> {"h1"}, workers |-> 2, pool |-> {"w1", "w2"},
      killed |-> {"host", "monitor", "worker"}],
     [hosts |-> {"h1", "h2"}, workers |-> NULL, pool |-> {"w1"},
      killed |-> {"worker"}]}

\* ------------------------------------------------------------ scheduler
CRONTAB_MAX_VALUES == [minutes |-> 59, hours |-> 23, days |-> 31,
                       months |-> 12, days_of_week |-> 6]
CRONTAB_MIN_VALUES == [minutes |-> 0, hours |-> 0, days |-> 1,
                       months |-> 1, days_of_week |-> 0]

\* python's None where a datetime is expected; a datetime d is <<d>>
None == <<>>

\* a crontab field: "*", "*/n", or a list of values and ranges
All == [kind |-> "*", n |-> 1, values |-> {}]
Repeat(n) == [kind |-> "*/n", n |-> n, values |-> {}]
Values(S) == [kind |-> "list", n |-> 1, values |-> S]
\* a list as it is written: atoms <<v>> (an integer) and <<m, n>> (m-n)
List(atoms) == [kind |-> "a,m-n", n |-> 1, values |-> atoms]
\* RE_SEQUENCE: list(range(m, n + 1)) for m-n, else int(element)
Element(atom) == IF Len(atom) = 2 THEN atom[1]..atom[2] ELSE {atom[1]}

\* sorted(set(values))
RECURSIVE Sorted(_)
Sorted(S) ==
    IF S = {} THEN <<>> ELSE <<Min(S)>> \o Sorted(S \ {Min(S)})

\* get_next_value: the first item larger than value, else the first item
GetNextValue(value, values) ==
    LET larger == {i \in 1..Len(values) : values[i] > value}
    IN  IF larger = {} THEN values[1] ELSE values[Min(larger)]

\* a get_numeric_sequence whose */n counts from 0 in every field
GetNumericSequence_zero(pattern, min_value, max_value) ==
    IF pattern.kind = "*"
    THEN Sorted(min_value..max_value)
    ELSE IF pattern.kind = "*/n"
    THEN Sorted({v \in min_value..max_value : v % pattern.n = 0})
    ELSE IF pattern.kind = "list"
    THEN Sorted(pattern.values)
    ELSE Sorted(UNION {Element(pattern.values[i]) :
                          i \in DOMAIN pattern.values})

\* get_numeric_sequence
GetNumericSequence(pattern, min_value, max_value) ==
    IF pattern.kind = "*"
    THEN Sorted(min_value..max_value)
    ELSE IF pattern.kind = "*/n"
    THEN Sorted({v \in min_value..max_value :
                    (v - min_value) % pattern.n = 0})
    ELSE IF pattern.kind = "list"
    THEN Sorted(pattern.values)
    ELSE Sorted(UNION {Element(pattern.values[i]) :
                          i \in DOMAIN pattern.values})

\* get_cron_parts
GetCronParts(crontab) ==
    [name \in DOMAIN crontab |->
        GetNumericSequence(crontab[name], CRONTAB_MIN_VALUES[name],
                           CRONTAB_MAX_VALUES[name])]

\* CronScheduler.get_next_minute
GetNextMinute(cron_parts, previous_schedule) ==
    GetNextValue(previous_schedule.minute, cron_parts.minutes)

\* CronScheduler.get_next_schedule: computes next_minute and ends without
\* a return statement, so the caller gets None
GetNextSchedule(cron_parts, previous_schedule) ==
    LET next_minute == GetNextMinute(cron_parts, previous_schedule)
    IN  None

\* get_days_per_month: calendar.monthrange(year, month)
GetDaysPerMonth(year, month) ==
    IF month = 2
    THEN IF year % 4 = 0 /\ (year % 100 # 0 \/ year % 400 = 0) THEN 29 ELSE 28
    ELSE IF month \in {4, 6, 9, 11} THEN 30 ELSE 31

DAYS_PER_WEEK == 7
MAX_DAYS_PER_MONTH == 31
MAX_ADAPT_SCHEDULE_ITERATION == 10000
\* datetime.MAXYEAR: datetime.datetime(year, ...) raises ValueError above
MAXYEAR == 9999

\* the leap years up to year
LeapYears(year) == (year \div 4) - (year \div 100) + (year \div 400)

\* the days from 2024-01-01 (a Monday) to the first day of the month
RECURSIVE DaysBefore(_, _)
DaysBefore(year, month) ==
    IF month = 1
    THEN 365 * (year - 2024) + LeapYears(year - 1) - LeapYears(2023)
    ELSE DaysBefore(year, month - 1) + GetDaysPerMonth(year, month - 1)

\* calendar.weekday(year, month, day): Monday is 0, Sunday is 6
CalendarWeekday(year, month, day) == (DaysBefore(year, month) + day - 1) % 7

\* get_weekday(schedule=schedule)
GetWeekday(schedule) ==
    LET weekday ==
           CalendarWeekday(schedule.year, schedule.month, schedule.day) + 1
    IN  IF weekday > 6 THEN 0 ELSE weekday

\* CronScheduler.all_days_allowed, all_weekdays_allowed
AllDaysAllowed(cron) == Len(cron.days) >= MAX_DAYS_PER_MONTH
AllWeekdaysAllowed(cron) == Len(cron.days_of_week) >= DAYS_PER_WEEK

\* get_next_day_from_days of CronScheduler.get_next_day
GetNextDayFromDays(cron, prev, next_hour) ==
    IF next_hour > prev.hour /\ InSeq(cron.days, prev.day)
    THEN prev.day
    ELSE GetNextValue(prev.day, cron.days)

\* get_next_day_from_weekdays of CronScheduler.get_next_day
GetNextDayFromWeekdays(cron, prev) ==
    LET this_weekday == GetWeekday(prev)
        next_weekday == GetNextValue(this_weekday, cron.days_of_week)
        delta == (next_weekday - this_weekday + DAYS_PER_WEEK)
                    % DAYS_PER_WEEK
    IN  prev.day + delta

\* a get_next_day that leaves a day beyond the end of the month as it is
GetNextDay_kept(cron, strict_mode, prev, next_hour) ==
    IF AllWeekdaysAllowed(cron)
    THEN GetNextDayFromDays(cron, prev, next_hour)
    ELSE IF AllDaysAllowed(cron)
    THEN GetNextDayFromWeekdays(cron, prev)
    ELSE IF strict_mode
    THEN GetNextDayFromDays(cron, prev, next_hour)
    ELSE Min({GetNextDayFromDays(cron, prev, next_hour),
              GetNextDayFromWeekdays(cron, prev)})

\* CronScheduler.get_next_day(next_hour, schedule)
GetNextDay(cron, strict_mode, prev, next_hour) ==
    LET next_day ==
           IF AllWeekdaysAllowed(cron)
           THEN GetNextDayFromDays(cron, prev, next_hour)
           ELSE IF AllDaysAllowed(cron)
           THEN GetNextDayFromWeekdays(cron, prev)
           ELSE IF strict_mode
           THEN \* check the day in a later step
                GetNextDayFromDays(cron, prev, next_hour)
           ELSE Min({GetNextDayFromDays(cron, prev, next_hour),
                     GetNextDayFromWeekdays(cron, prev)})
        \* check for valid day in month
        days_per_month == GetDaysPerMonth(prev.year, prev.month)
    IN  IF next_day > days_per_month
        THEN next_day - days_per_month
        ELSE next_day

\* the local variables of the for loop of get_next_month_and_year before
\* its iteration n
SearchFrame(n, next_day, prev_month, next_year) ==
    [n |-> n, next_day |-> next_day, prev_month |-> prev_month,
     next_year |-> next_year]
NoSearch == SearchFrame(0, 0, 0, 0)

\* CronScheduler.get_next_month_and_year(next_day, schedule) up to its
\* loop: the month and year it returns at once, or the loop entered
EnterMonthAndYear(cron, prev, next_day) ==
    IF next_day > prev.day /\ InSeq(cron.months, prev.month)
    THEN [found |-> TRUE, next_month |-> prev.month,
          next_year |-> prev.year, frame |-> NoSearch]
    ELSE [found |-> FALSE, next_month |-> 0, next_year |-> prev.year,
          frame |-> SearchFrame(0, next_day, prev.month, prev.year)]

\* one iteration of the for loop of get_next_month_and_year
SearchMonthAndYear(cron, f) ==
    LET next_month == GetNextValue(f.prev_month, cron.months)
        next_year == IF next_month <= f.prev_month
                     THEN f.next_year + 1 ELSE f.next_year
        \* check whether the new month has enough days
        days_per_month == GetDaysPerMonth(next_year, next_month)
    IN  IF f.next_day > days_per_month
        THEN [found |-> FALSE, next_month |-> next_month,
              next_year |-> next_year,
              frame |-> SearchFrame(f.n + 1, cron.days[1], next_month,
                                    next_year)]
        ELSE [found |-> TRUE, next_month |-> next_month,
              next_year |-> next_year, frame |-> NoSearch]

\* datetime.datetime(year, month, day, ...): the ValueError it raises, ""
\* if it returns
DatetimeError(year, month, day) ==
    IF year > MAXYEAR THEN "year is out of range"
    ELSE IF day < 1 \/ day > GetDaysPerMonth(year, month)
    THEN "day is out of range for month"
    ELSE ""

\* "* * * * *"
DefaultCronParts ==
    GetCronParts([name \in DOMAIN CRONTAB_MAX_VALUES |-> All])

\* the schedule column a caller stores for what get_next_schedule gave it
\* for the crontab "* * * * *": NULL for None, else the next clock unit
ScheduleColumn(nowv) ==
    IF GetNextSchedule(DefaultCronParts,
                       [year |-> 2024, month |-> 1, day |-> 1,
                        hour |-> 0, minute |-> nowv]) = None
    THEN NULL ELSE nowv + 1

\* ------------------------------------------------------------- the state
VARIABLES
    db,         \* the database file all processes share
    now,        \* the wall clock
    hpc,        \* hpc[h]: where host process h is
    mpc,        \* mpc[h]: where the monitor spawned by host h is
    terminate_monitor,  \* Monitor.terminate_monitor of that monitor
    sub_processes,      \* Monitor.sub_processes: the workers it spawned
    mindex,     \* position of the for loop of monitor_workers
    wpc,        \* wpc[w]: where worker process w is
    active,     \* Worker.active
    task,       \* the Task instance the worker got from get_next_task
    result,     \* Worker.result
    error_message,      \* Worker.error_message
    wsettings,  \* the settings row a read-then-write store call has read
    monitor_pid,        \* Worker.monitor_pid: the host whose monitor spawned it
    deployment, \* which hosts run and how they call Engine.start
    scheduler,  \* a CronScheduler: its cron_parts, the previous_schedule
                \* it was called with and what get_next_schedule returned
    temporary,  \* the temporary database of the interface under test
    call,       \* a call of a db_access wrapper: its loop variables
    registrator,        \* a TaskRegistrator, its thread(s) and its callers
    monitor,    \* a Monitor by itself: its sub_processes and their pids
    nregs,      \* register_task calls so far
    nkills,     \* processes killed hard so far
    lastOp,     \* history: the operation of the last step and who did it
    handouts,   \* history: per task row, get_next_task calls that returned
                \* it since it was inserted or last set back to WAITING
    elected,    \* history: acquire_monitor_lock calls that returned True
                \* since the last tear_down_database
    writes      \* history: per uuid, update_result calls that wrote the row

vars == <<db, now, deployment, scheduler, temporary, call, registrator,
          monitor, hpc, mpc, terminate_monitor,
          sub_processes, mindex, wpc, active, task, result, error_message,
          wsettings, monitor_pid, nregs, nkills, lastOp, handouts, elected,
          writes>>

fixedVars == <<deployment, scheduler, temporary, call, registrator,
               monitor>>
hostVars == <<hpc, fixedVars>>
monitorVars == <<mpc, terminate_monitor, sub_processes, mindex>>
workerVars == <<wpc, active, task, result, error_message, wsettings,
                monitor_pid>>

\* the record kept in lastOp: the call, the process, the value a boolean
\* call returned (for register_task: whether it returned at all) and the
\* task the call was about (for init_database: the rowid of the first row
\* it inserts)
OpOn(op, proc, ret, t) == [op |-> op, proc |-> proc, ret |-> ret, task |-> t]
Op(op, proc) == OpOn(op, proc, FALSE, NoTask)

\* history of handouts after a step: rows in resets were inserted or set
\* back to WAITING by the step, row claimed (0: none) was handed out
Handouts(tasks, resets, claimed) ==
    [r \in DOMAIN tasks |->
        IF r \in resets \/ r \notin DOMAIN handouts THEN 0
        ELSE IF r = claimed THEN Min({handouts[r] + 1, 2})
        ELSE handouts[r]]

ProcessingRows(tasks) ==
    {r \in DOMAIN tasks : tasks[r].status = TASK_STATUS_PROCESSING}

WorkerAlive(w) == wpc[w] \notin {"off", "exited", "crashed", "killed"}
MonitorAlive(h) == mpc[h] \notin {"off", "done", "killed"}
HostAlive(h) == hpc[h] \notin {"stopped", "dead"}

\* --------------------------------------------------------- host process
\* what the host registers: a @cron function (crontab, no uuid; the
\* decorator passes the None it got from get_next_schedule, so the task is
\* due now) or a @delay call (uuid, no crontab, due now or one unit later)
Decorated ==
    {[function_name |-> "tst_cron", crontab |-> DEFAULT_CRONTAB, delay |-> 0],
     [function_name |-> "tst_add", crontab |-> "", delay |-> 0]}
Registrations ==
    Decorated
        \cup {[function_name |-> "tst_add", crontab |-> "", delay |-> 1],
              [function_name |-> "tst_fail", crontab |-> DEFAULT_CRONTAB,
               delay |-> 0],
              [function_name |-> "tst_fail", crontab |-> "", delay |-> 0],
              [function_name |-> "tst_gone", crontab |-> "", delay |-> 0]}

\* register_task for a registration, with the uuid the decorator drew
RegisterIn(d, reg, uuid, nowv) ==
    RegisterTask(d, TRUE, reg.function_name,
                 IF reg.crontab # ""
                 THEN ScheduleColumn(nowv)
                 ELSE IF reg.delay = 0 THEN NULL ELSE nowv + reg.delay,
                 reg.crontab,
                 IF reg.crontab # "" THEN "" ELSE uuid,
                 ArgsOf(reg.function_name), nowv)

\* the sequences of at most MaxPre registrations
PreRegistrations ==
    UNION {[1..n -> Decorated] : n \in 0..MaxPre}

\* SQLiteInterface.__init__: a temporary database with the default
\* settings row
TemporaryDatabase ==
    [EmptyDatabase EXCEPT !.settings = <<SETTINGS_DEFAULT_DATA>>]

\* the temporary database of host h after its decorators registered regs
\* while the host imported its modules
RECURSIVE PreRegistered(_, _)
PreRegistered(h, regs) ==
    IF regs = <<>> THEN TemporaryDatabase
    ELSE LET front == SubSeq(regs, 1, Len(regs) - 1)
         IN  RegisterIn(PreRegistered(h, front), regs[Len(regs)],
                        PreUuids[h][Len(regs)], 0)

\* a scheduler that has not been called
NewScheduler(cron_parts, previous_schedule) ==
    [cron_parts |-> cron_parts, previous_schedule |-> previous_schedule,
     next_schedule |-> None, called |-> FALSE]

\* no call of a db_access wrapper is under way
NoCall ==
    [retry_num |-> 0, message |-> "", delay |-> 0, attempts |-> 0,
     retried |-> {}, state |-> "none", value |-> NULL, tasks |-> <<>>]


\* TaskRegistrator.__init__: an empty queue, the event not set, no thread;
\* with it the position of each thread that start() may create (pc, and
\* the data it took from the queue), the number of register() calls made
\* (the single producer numbers its items 1, 2, ...) and, as history, the
\* items in the order register_task was invoked with them and the number
\* of register() calls that had returned when stop() was last called
NoThread == 0
Threads == 1..MaxThreads
NewRegistrator ==
    [task_queue |-> <<>>, exit_event |-> FALSE,
     registration_thread |-> NoThread,
     pc |-> [t \in Threads |-> "none"], data |-> [t \in Threads |-> 0],
     calls |-> 0, registered |-> <<>>, accepted |-> 0]


\* Monitor.__init__ of a monitor by itself: no sub_processes; with it the
\* pids of the worker processes that have ended (poll() is not None), the
\* number of processes started so far (they get the pids 1, 2, ...) and
\* whether run() has called start_workers
NewMonitor ==
    [sub_processes |-> <<>>, exited |-> {}, spawned |-> 0, running |-> FALSE]

\* no host has started yet and the database file does not exist
ProcessInit ==
    /\ db = EmptyDatabase
    /\ now = 0
    /\ hpc = [h \in Hosts |-> "import"]
    /\ mpc = [h \in Hosts |-> "off"]
    /\ terminate_monitor = [h \in Hosts |-> FALSE]
    /\ sub_processes = [h \in Hosts |-> <<>>]
    /\ mindex = [h \in Hosts |-> 0]
    /\ wpc = [w \in Workers |-> "off"]
    /\ active = [w \in Workers |-> TRUE]
    /\ task = [w \in Workers |-> NoTask]
    /\ result = [w \in Workers |-> NULL]
    /\ error_message = [w \in Workers |-> NoneText]
    /\ wsettings = [p \in Workers \cup Hosts |-> SETTINGS_DEFAULT_DATA]
    /\ monitor_pid = [w \in Workers |-> "h1"]
    /\ temporary = TemporaryDatabase
    /\ call = NoCall
    /\ registrator = NewRegistrator
    /\ monitor = NewMonitor
    /\ nregs = 0
    /\ nkills = 0
    /\ lastOp = Op("other", "")
    /\ handouts = <<>>
    /\ elected = 0
    /\ writes = [u \in AllUuids |-> 0]

Init ==
    /\ deployment \in Deployments
    /\ scheduler = NewScheduler(DefaultCronParts, None)
    /\ ProcessInit

\* The host has imported its modules, where its decorators registered
\* regs into the temporary database of the interface; Engine.start, step
\* 1: init_database on the database file copies the tasks from there
HostStart(h) ==
    /\ h \in deployment.hosts
    /\ hpc[h] = "import"
    /\ h = "h2" => hpc["h1"] # "import"
    /\ \E regs \in PreRegistrations :
          db' = InitDatabase(db, PreRegistered(h, regs).tasks)
    /\ hpc' = [hpc EXCEPT ![h] = "inited"]
    /\ handouts' = Handouts(db'.tasks, {}, 0)
    /\ lastOp' = OpOn("init_database", h, FALSE,
                      [NoTask EXCEPT !.rowid = NextRowid(db.tasks)])
    /\ UNCHANGED <<now, fixedVars, monitorVars, workerVars, nregs,
                   nkills, elected,
                   writes>>

\* Engine.start, steps 4 to 6: acquire_monitor_lock; the winner overrides
\* max_workers and spawns the monitor
HostAcquire(h) ==
    /\ hpc[h] = "inited"
    /\ LET acquired == AcquireMonitorLock(db)
       IN  /\ db' = IF acquired.ret
                    THEN SettingsUpdate(acquired.db,
                            [SettingsRead(acquired.db) EXCEPT !.max_workers =
                                IF deployment.workers = NULL THEN @
                                ELSE deployment.workers])
                    ELSE acquired.db
           /\ hpc' = [hpc EXCEPT ![h] = IF acquired.ret THEN "master"
                                                         ELSE "member"]
           /\ mpc' = [mpc EXCEPT ![h] = IF acquired.ret THEN "init" ELSE @]
           /\ elected' = IF acquired.ret THEN Min({elected + 1, 2}) ELSE elected
           /\ lastOp' = OpOn("acquire_monitor_lock", h, acquired.ret, NoTask)
    /\ UNCHANGED <<now, fixedVars, terminate_monitor,
                   sub_processes,
                   mindex,
                   workerVars, nregs, nkills, handouts, writes>>

\* a decorated function is called at runtime; the registrator thread
\* writes it to the database file
HostRegister(h) ==
    /\ hpc[h] \in {"master", "member"}
    /\ nregs < MaxRegs
    /\ \E reg \in Registrations :
          db' = RegisterIn(db, reg, Uuids[nregs + 1], now)
    /\ nregs' = nregs + 1
    /\ handouts' = Handouts(db'.tasks, {}, 0)
    /\ lastOp' = Op("other", "")
    /\ UNCHANGED <<now, fixedVars, hpc, monitorVars, workerVars,
                   nkills,
                   elected,
                   writes>>

\* Engine.stop: signal the monitor child, then tear_down_database.  A
\* monitor that has not installed its handler yet dies of the signal.
HostStop(h) ==
    /\ hpc[h] \in {"master", "member"}
    /\ hpc' = [hpc EXCEPT ![h] = "stopped"]
    /\ IF hpc[h] = "master" /\ MonitorAlive(h)
       THEN IF mpc[h] = "init"
            THEN mpc' = [mpc EXCEPT ![h] = "killed"]
                 /\ UNCHANGED terminate_monitor
            ELSE terminate_monitor' = [terminate_monitor EXCEPT ![h] = TRUE]
                 /\ UNCHANGED mpc
       ELSE UNCHANGED <<mpc, terminate_monitor>>
    /\ db' = TearDownDatabase(db)
    /\ handouts' = Handouts(db'.tasks, ProcessingRows(db.tasks), 0)
    /\ elected' = 0
    /\ lastOp' = Op("tear_down_database", h)
    /\ UNCHANGED <<now, fixedVars, sub_processes, mindex,
                   workerVars,
                   nregs,
                   nkills, writes>>

\* ------------------------------------------------------ monitor process
WorkerOrder == <<"w1", "w2">>

\* the worker processes not started yet, in the order they get started
FreeWorkers(pcs) ==
    SelectSeq(WorkerOrder, LAMBDA w : w \in deployment.pool /\ pcs[w] = "off")

\* the first count of them
FirstOf(seq, count) == SubSeq(seq, 1, Min({count, Len(seq)}))

Range(seq) == {seq[i] : i \in 1..Len(seq)}

\* process.poll() is not None
Exited(w) == wpc[w] \in {"exited", "crashed", "killed"}

\* SIGTERM to the workers in S: Worker.terminate sets active to False; a
\* worker that has not installed the handler yet dies of the signal
TerminatedPc(S) ==
    [w \in Workers |-> IF w \in S /\ wpc[w] = "init" THEN "exited" ELSE wpc[w]]
TerminatedActive(S) ==
    [w \in Workers |-> IF w \in S /\ WorkerAlive(w) THEN FALSE ELSE active[w]]

\* Monitor.__init__ (init_database) and Monitor.start_workers
MonitorStart(h) ==
    /\ mpc[h] = "init"
    /\ db' = InitDatabase(db, EmptyTable)
    /\ LET started == FirstOf(FreeWorkers(wpc), SettingsRead(db').max_workers)
       IN  /\ sub_processes' = [sub_processes EXCEPT ![h] = started]
           /\ wpc' = [w \in Workers |->
                        IF w \in Range(started) THEN "init" ELSE wpc[w]]
           /\ monitor_pid' = [w \in Workers |->
                        IF w \in Range(started) THEN h ELSE monitor_pid[w]]
    /\ mpc' = [mpc EXCEPT ![h] = "loop"]
    /\ lastOp' = Op("other", "")
    /\ UNCHANGED <<hostVars, now, terminate_monitor, mindex, active, task,
                   result, error_message, wsettings, nregs, nkills, handouts,
                   elected, writes>>

\* a master_missing that never finds the host process gone
MasterMissing_never(h) == FALSE

\* Monitor.master_missing: the host process is gone
MasterMissing(h) == ~HostAlive(h)

\* the position of the first exited worker at or after position i of the
\* list, 0 if there is none
NextExited(h, i) ==
    LET hits == {j \in i..Len(sub_processes[h]) : Exited(sub_processes[h][j])}
    IN  IF hits = {} THEN 0 ELSE Min(hits)

\* Monitor.monitor_workers: the for loop runs on to the next exited
\* worker, where decrement_running_workers reads the settings
MonitorPoll(h, i) ==
    LET j == NextExited(h, i)
    IN  IF j = 0
        THEN /\ mpc' = [mpc EXCEPT ![h] = "loop"]
             /\ mindex' = [mindex EXCEPT ![h] = 0]
             /\ UNCHANGED wsettings
        ELSE /\ mpc' = [mpc EXCEPT ![h] = "decrement"]
             /\ mindex' = [mindex EXCEPT ![h] = j]
             /\ wsettings' = [wsettings EXCEPT ![h] = SettingsRead(db)]

\* Monitor.run, one turn of the loop: leave it when terminate_monitor is
\* set or the master is missing, else monitor_workers and sleep
MonitorLoop(h) ==
    /\ mpc[h] = "loop"
    /\ IF terminate_monitor[h] \/ MasterMissing(h)
       THEN mpc' = [mpc EXCEPT ![h] = "tear_down"]
            /\ UNCHANGED <<mindex, wsettings>>
       ELSE MonitorPoll(h, 1)
    /\ lastOp' = Op("other", "")
    /\ UNCHANGED <<db, hostVars, now, terminate_monitor, sub_processes, wpc,
                   active, task, result, error_message, monitor_pid, nregs,
                   nkills, handouts, elected, writes>>

\* decrement_running_workers writes the row it read (nothing when the pid
\* is not in the list); the monitor removes the process from its list and
\* starts a new one; the list iterator moves one position on
MonitorDecrement(h) ==
    /\ mpc[h] = "decrement"
    /\ LET process == sub_processes[h][mindex[h]]
           started == FirstOf(FreeWorkers(wpc), 1)
       IN  /\ db' = IF InSeq(wsettings[h].worker_pids, process)
                    THEN SettingsUpdate(db,
                            DecrementedSettings(wsettings[h], process))
                    ELSE db
           /\ sub_processes' = [sub_processes EXCEPT ![h] =
                                  RemoveFirst(@, process) \o started]
           /\ wpc' = [w \in Workers |->
                        IF w \in Range(started) THEN "init" ELSE wpc[w]]
           /\ monitor_pid' = [w \in Workers |->
                        IF w \in Range(started) THEN h ELSE monitor_pid[w]]
    /\ mindex' = [mindex EXCEPT ![h] = @ + 1]
    /\ mpc' = [mpc EXCEPT ![h] = "monitor_workers"]
    /\ wsettings' = [wsettings EXCEPT ![h] = SETTINGS_DEFAULT_DATA]
    /\ lastOp' = Op("other", "")
    /\ UNCHANGED <<hostVars, now, terminate_monitor, active, task, result,
                   error_message, nregs, nkills, handouts, elected, writes>>

\* Monitor.monitor_workers goes on after a restart
MonitorNext(h) ==
    /\ mpc[h] = "monitor_workers"
    /\ MonitorPoll(h, mindex[h])
    /\ lastOp' = Op("other", "")
    /\ UNCHANGED <<db, hostVars, now, terminate_monitor, sub_processes, wpc,
                   active, task, result, error_message, monitor_pid, nregs,
                   nkills, handouts, elected, writes>>

\* Monitor.run after the loop: tear_down_database
MonitorTearDown(h) ==
    /\ mpc[h] = "tear_down"
    /\ db' = TearDownDatabase(db)
    /\ mpc' = [mpc EXCEPT ![h] = "stop_workers"]
    /\ handouts' = Handouts(db'.tasks, ProcessingRows(db.tasks), 0)
    /\ elected' = 0
    /\ lastOp' = Op("tear_down_database", h)
    /\ UNCHANGED <<hostVars, now, terminate_monitor, sub_processes, mindex,
                   workerVars, nregs, nkills, writes>>

\* Monitor.stop_workers, and the monitor process ends
MonitorStopWorkers(h) ==
    /\ mpc[h] = "stop_workers"
    /\ wpc' = TerminatedPc(Range(sub_processes[h]))
    /\ active' = TerminatedActive(Range(sub_processes[h]))
    /\ mpc' = [mpc EXCEPT ![h] = "done"]
    /\ lastOp' = Op("other", "")
    /\ UNCHANGED <<db, hostVars, now, terminate_monitor, sub_processes,
                   mindex, task, result, error_message, wsettings,
                   monitor_pid, nregs, nkills, handouts, elected, writes>>

\* ------------------------------------------------------- worker process
\* Worker.monitor_missing
MonitorMissing(w) == ~MonitorAlive(monitor_pid[w])

\* Worker.__init__ (init_database), then run() enters
\* increment_running_workers, which reads the settings
WStart(w) ==
    /\ wpc[w] = "init"
    /\ db' = InitDatabase(db, EmptyTable)
    /\ wsettings' = [wsettings EXCEPT ![w] = SettingsRead(db')]
    /\ wpc' = [wpc EXCEPT ![w] = "increment"]
    /\ lastOp' = Op("other", "")
    /\ UNCHANGED <<hostVars, monitorVars, now, active, task, result,
                   error_message, monitor_pid, nregs, nkills, handouts,
                   elected, writes>>

\* increment_running_workers writes the row it read
WIncrement(w) ==
    /\ wpc[w] = "increment"
    /\ db' = SettingsUpdate(db, IncrementedSettings(wsettings[w], w))
    /\ wsettings' = [wsettings EXCEPT ![w] = SETTINGS_DEFAULT_DATA]
    /\ wpc' = [wpc EXCEPT ![w] = "loop"]
    /\ lastOp' = Op("other", "")
    /\ UNCHANGED <<hostVars, monitorVars, now, active, task, result,
                   error_message, monitor_pid, nregs, nkills, handouts,
                   elected, writes>>

\* Worker.run: while self.active; Worker.handle_task: get_next_task
WGetNextTask(w) ==
    /\ wpc[w] = "loop"
    /\ active[w]
    /\ LET got == GetNextTask(db, now)
       IN  /\ db' = got.db
           /\ task' = [task EXCEPT ![w] = got.task]
           /\ wpc' = [wpc EXCEPT ![w] = IF got.task.rowid = 0 THEN "idle"
                                                              ELSE "claimed"]
           /\ handouts' = Handouts(db'.tasks, {}, got.task.rowid)
           /\ lastOp' = Op("other", "")
    /\ UNCHANGED <<hostVars, monitorVars, now, active, result, error_message,
                   wsettings, monitor_pid, nregs, nkills, elected, writes>>

\* Worker.run: the loop ends when active is False
WExit(w) ==
    /\ wpc[w] = "loop"
    /\ ~active[w]
    /\ wpc' = [wpc EXCEPT ![w] = "exited"]
    /\ lastOp' = Op("other", "")
    /\ UNCHANGED <<db, hostVars, monitorVars, now, active, task, result,
                   error_message, wsettings, monitor_pid, nregs, nkills,
                   handouts, elected, writes>>

\* Worker.__init__: the interface of a worker accepts no registrations
WORKER_ACCEPT_REGISTRATIONS == FALSE

\* importlib.import_module in a process whose interface has accept as its
\* accept_registrations: the cron decorators of the module of the task
\* functions run and call register (no registrator thread runs in a
\* worker: register_task is called at once)
ImportModule(d, accept, nowv) ==
    RegisterTask(d, accept, "tst_cron", ScheduleColumn(nowv),
                 DEFAULT_CRONTAB, "", ArgsOf("tst_cron"), nowv)

\* Worker.handle_task after get_next_task returned a task: return True
\* without processing when active is False, else process_task, where the
\* exception of a failed lookup ends the worker process and an Exception
\* of the function is caught
WProcessTask(w) ==
    /\ wpc[w] = "claimed"
    /\ IF ~active[w]
       THEN /\ wpc' = [wpc EXCEPT ![w] = "loop"]
            /\ task' = [task EXCEPT ![w] = NoTask]
            /\ lastOp' = OpOn("not_processed", w, TRUE, task[w])
            /\ UNCHANGED <<result, error_message>>
       ELSE IF ~Resolvable(task[w].function_name)
       THEN /\ wpc' = [wpc EXCEPT ![w] = "crashed"]
            /\ task' = [task EXCEPT ![w] = NoTask]
            /\ lastOp' = OpOn("lookup_failed", w, FALSE, task[w])
            /\ UNCHANGED <<result, error_message>>
       ELSE /\ result' = [result EXCEPT ![w] =
                 IF Raises(task[w].function_name, task[w].args) THEN NULL
                 ELSE CallFunction(task[w].function_name, task[w].args)]
            /\ error_message' = [error_message EXCEPT ![w] =
                 IF Raises(task[w].function_name, task[w].args)
                 THEN ReprOf(task[w].function_name) ELSE NoneText]
            /\ wpc' = [wpc EXCEPT ![w] = IF task[w].uuid # ""
                                          THEN "update_result"
                                          ELSE "postprocess"]
            /\ lastOp' = Op("other", "")
            /\ UNCHANGED task
    /\ db' = IF active[w] /\ Resolvable(task[w].function_name)
             THEN ImportModule(db, WORKER_ACCEPT_REGISTRATIONS, now)
             ELSE db
    /\ UNCHANGED <<hostVars, monitorVars, now, active, wsettings,
                   monitor_pid, nregs, nkills, handouts, elected, writes>>

\* Worker.postprocess_task: update_result for a task with a uuid; the
\* AttributeError of a missing result row ends the worker process
WUpdateResult(w) ==
    /\ wpc[w] = "update_result"
    /\ IF UpdateResultRaises(db, task[w].uuid)
       THEN /\ wpc' = [wpc EXCEPT ![w] = "crashed"]
            /\ task' = [task EXCEPT ![w] = NoTask]
            /\ result' = [result EXCEPT ![w] = NULL]
            /\ UNCHANGED <<db, writes>>
       ELSE /\ wpc' = [wpc EXCEPT ![w] = "postprocess"]
            /\ db' = UpdateResult(db, task[w].uuid, result[w],
                                  error_message[w], now)
            /\ writes' = [writes EXCEPT ![task[w].uuid] = Min({@ + 1, 2})]
            /\ UNCHANGED <<task, result>>
    /\ lastOp' = Op("other", "")
    /\ UNCHANGED <<hostVars, monitorVars, now, active, error_message,
                   wsettings, monitor_pid, nregs, nkills, handouts, elected>>

\* Worker.postprocess_task: a crontask gets the schedule of
\* get_next_schedule, any other task is deleted; handle_task returns True
\* and its local task goes out of scope
WPostprocess(w) ==
    /\ wpc[w] = "postprocess"
    /\ IF task[w].crontab # ""
       THEN /\ db' = UpdateTaskSchedule(db, task[w], ScheduleColumn(now))
            /\ handouts' = Handouts(db'.tasks, {task[w].rowid}, 0)
            /\ lastOp' = OpOn("update_task_schedule", w, TRUE, task[w])
       ELSE /\ db' = DeleteTask(db, task[w])
            /\ handouts' = Handouts(db'.tasks, {}, 0)
            /\ lastOp' = OpOn("delete_task", w, TRUE, task[w])
    /\ wpc' = [wpc EXCEPT ![w] = "loop"]
    /\ task' = [task EXCEPT ![w] = NoTask]
    /\ result' = [result EXCEPT ![w] = NULL]
    /\ error_message' = [error_message EXCEPT ![w] = NoneText]
    /\ UNCHANGED <<hostVars, monitorVars, now, active, wsettings,
                   monitor_pid, nregs, nkills, elected, writes>>

\* Worker.run with nothing to do: delete_outdated_results, the idle sleep,
\* then the check for a missing monitor
WIdle(w) ==
    /\ wpc[w] = "idle"
    /\ db' = DeleteOutdatedResults(db, now)
    /\ wpc' = [wpc EXCEPT ![w] = IF MonitorMissing(w) /\ active[w]
                                  THEN "tear_down" ELSE "loop"]
    /\ lastOp' = Op("delete_outdated_results", w)
    /\ UNCHANGED <<hostVars, monitorVars, now, active, task, result,
                   error_message, wsettings, monitor_pid, nregs, nkills,
                   handouts, elected, writes>>

\* Worker.run: the monitor is missing: tear_down_database, active = False
WTearDown(w) ==
    /\ wpc[w] = "tear_down"
    /\ db' = TearDownDatabase(db)
    /\ active' = [active EXCEPT ![w] = FALSE]
    /\ wpc' = [wpc EXCEPT ![w] = "loop"]
    /\ handouts' = Handouts(db'.tasks, ProcessingRows(db.tasks), 0)
    /\ elected' = 0
    /\ lastOp' = Op("tear_down_database", w)
    /\ UNCHANGED <<hostVars, monitorVars, now, task, result, error_message,
                   wsettings, monitor_pid, nregs, nkills, writes>>

\* ------------------------------------------------------- the environment
\* a process is killed without running any handler: a worker that holds
\* a task, a monitor in its loop, the host that owns the monitor
WKill(w) ==
    /\ "worker" \in deployment.killed
    /\ wpc[w] \in {"claimed", "update_result", "postprocess"}
    /\ nkills < MaxKills
    /\ wpc' = [wpc EXCEPT ![w] = "killed"]
    /\ task' = [task EXCEPT ![w] = NoTask]
    /\ result' = [result EXCEPT ![w] = NULL]
    /\ wsettings' = [wsettings EXCEPT ![w] = SETTINGS_DEFAULT_DATA]
    /\ error_message' = [error_message EXCEPT ![w] = NoneText]
    /\ nkills' = nkills + 1
    /\ lastOp' = Op("other", "")
    /\ UNCHANGED <<db, hostVars, monitorVars, now, active, monitor_pid,
                   nregs, handouts, elected, writes>>

MonitorKill(h) ==
    /\ "monitor" \in deployment.killed
    /\ mpc[h] = "loop"
    /\ nkills < MaxKills
    /\ mpc' = [mpc EXCEPT ![h] = "killed"]
    /\ nkills' = nkills + 1
    /\ lastOp' = Op("other", "")
    /\ UNCHANGED <<db, hostVars, now, terminate_monitor, sub_processes,
                   mindex, workerVars, nregs, handouts, elected, writes>>

HostKill(h) ==
    /\ "host" \in deployment.killed
    /\ hpc[h] = "master"
    /\ nkills < MaxKills
    /\ hpc' = [hpc EXCEPT ![h] = "dead"]
    /\ nkills' = nkills + 1
    /\ lastOp' = Op("other", "")
    /\ UNCHANGED <<db, now, fixedVars, monitorVars, workerVars,
                   nregs,
                   handouts,
                   elected, writes>>

\* a schedule or a ttl of the database is still ahead of the clock
ClockAwaited(d) ==
    \/ \E r \in DOMAIN d.tasks :
          d.tasks[r].schedule # NULL /\ d.tasks[r].schedule > now
    \/ \E u \in DOMAIN d.results :
          d.results[u].status # TASK_STATUS_WAITING /\ d.results[u].ttl > now

\* the clock advances (time that nothing waits for is not counted); the
\* two store calls of postprocess_task for a task with a uuid are made
\* within one clock unit
Tick ==
    /\ now < MaxNow
    /\ ClockAwaited(db)
    /\ \A w \in Workers : ~(wpc[w] = "postprocess" /\ task[w].uuid # "")
    /\ now' = now + 1
    /\ lastOp' = Op("other", "")
    /\ UNCHANGED <<db, hostVars, monitorVars, workerVars, nregs, nkills,
                   handouts, elected, writes>>

Next ==
    \/ \E h \in Hosts : HostStart(h)
    \/ \E h \in Hosts : HostAcquire(h)
    \/ \E h \in Hosts : HostRegister(h)
    \/ \E h \in Hosts : HostStop(h)
    \/ \E h \in Hosts : HostKill(h)
    \/ \E h \in Hosts : MonitorStart(h)
    \/ \E h \in Hosts : MonitorLoop(h)
    \/ \E h \in Hosts : MonitorNext(h)
    \/ \E h \in Hosts : MonitorDecrement(h)
    \/ \E h \in Hosts : MonitorTearDown(h)
    \/ \E h \in Hosts : MonitorStopWorkers(h)
    \/ \E h \in Hosts : MonitorKill(h)
    \/ \E w \in Workers : WStart(w)
    \/ \E w \in Workers : WIncrement(w)
    \/ \E w \in Workers : WGetNextTask(w)
    \/ \E w \in Workers : WExit(w)
    \/ \E w \in Workers : WProcessTask(w)
    \/ \E w \in Workers : WUpdateResult(w)
    \/ \E w \in Workers : WPostprocess(w)
    \/ \E w \in Workers : WIdle(w)
    \/ \E w \in Workers : WTearDown(w)
    \/ \E w \in Workers : WKill(w)
    \/ Tick

Spec == Init /\ [][Next]_vars

\* the steps of the monitor process host h spawned, and of worker process w
MonitorProcess(h) ==
    \/ MonitorStart(h)
    \/ MonitorLoop(h)
    \/ MonitorNext(h)
    \/ MonitorDecrement(h)
    \/ MonitorTearDown(h)
    \/ MonitorStopWorkers(h)
WorkerProcess(w) ==
    \/ WStart(w)
    \/ WIncrement(w)
    \/ WGetNextTask(w)
    \/ WExit(w)
    \/ WProcessTask(w)
    \/ WUpdateResult(w)
    \/ WPostprocess(w)
    \/ WIdle(w)
    \/ WTearDown(w)

\* the operating system runs every process that is not ended: a monitor
\* or a worker that can take a step takes one (task functions return, the
\* sleeps end)
Fairness ==
    /\ \A h \in Hosts : WF_vars(MonitorProcess(h))
    /\ \A w \in Workers : WF_vars(WorkerProcess(w))

\* one application process that is never stopped but may die, as its
\* monitor may; max_workers is the default, a second worker process can be
\* started in place of one that ended
LiveDeployment ==
    [hosts |-> {"h1"}, workers |-> NULL, pool |-> {"w1", "w2"},
     killed |-> {"host", "monitor"}]

LiveInit ==
    /\ deployment = LiveDeployment
    /\ scheduler = NewScheduler(DefaultCronParts, None)
    /\ ProcessInit

LiveNext ==
    \/ \E h \in Hosts : HostStart(h)
    \/ \E h \in Hosts : HostAcquire(h)
    \/ \E h \in Hosts : HostRegister(h)
    \/ \E h \in Hosts : HostKill(h)
    \/ \E h \in Hosts : MonitorKill(h)
    \/ \E h \in Hosts : MonitorProcess(h)
    \/ \E w \in Workers : WorkerProcess(w)
    \/ Tick

LiveSpec == LiveInit /\ [][LiveNext]_vars /\ Fairness

\* ------------------------------------------------- the scheduler by itself
\* the crontabs and the reference instants get_next_schedule is called with
Crontabs ==
    [minutes : {All, Repeat(15), Values({0}), Values({30, 45})},
     hours : {All, Values({5})},
     days : {All, Values({15})},
     months : {All},
     days_of_week : {All}]

Instants ==
    [year : {2024}, month : {1, 12}, day : {1, 31}, hour : {0, 5, 23},
     minute : {0, 14, 30, 59}]

SchedInit ==
    /\ deployment = CHOOSE d \in Deployments : d.hosts = {"h1"}
    /\ scheduler \in {NewScheduler(GetCronParts(c), <<t>>) :
                         c \in Crontabs, t \in Instants}
    /\ ProcessInit

\* CronScheduler(crontab).get_next_schedule(previous_schedule)
SchedGetNextSchedule ==
    /\ ~scheduler.called
    /\ scheduler' =
          [scheduler EXCEPT
             !.next_schedule = GetNextSchedule(scheduler.cron_parts,
                                               scheduler.previous_schedule[1]),
             !.called = TRUE]
    /\ UNCHANGED <<db, now, deployment, registrator, monitor, temporary, call,
                   hpc, monitorVars, workerVars, nregs, nkills, lastOp,
                   handouts, elected, writes>>

SchedNext == SchedGetNextSchedule

SchedSpec == SchedInit /\ [][SchedNext]_vars

\* --------------------------------------- the day and month of a schedule
\* CronScheduler(crontab, strict_mode=strict_mode) about to be made and
\* the instant its methods will be called with; with it where the call in
\* progress is (pc), what the calls returned, the local variables of the
\* loops (frame; adapt is the n of get_adapted_schedule_for_valid_day_of_
\* week, -1 outside of it) and the ValueError raised
CronSchedulerCall(crontab, strict_mode, previous_schedule) ==
    [pc |-> "args", crontab |-> crontab, strict_mode |-> strict_mode,
     cron_parts |-> None, previous_schedule |-> previous_schedule,
     next_hour |-> -1, next_day |-> 0, next_month |-> 0, next_year |-> 0,
     frame |-> NoSearch, adapt |-> -1, schedule |-> previous_schedule,
     error |-> ""]

\* crontabs "* * D M W"
DayCrontabs ==
    [minutes : {All}, hours : {All},
     days : {All, List(<<<<31>>>>), List(<<<<1>>, <<31>>>>),
             List(<<<<6>>, <<16>>>>)},
     months : {All, List(<<<<2>>>>), List(<<<<2>>, <<4>>>>)},
     days_of_week : {All, List(<<<<1>>, <<4>>>>)}]

\* a weekday that calendar.weekday never gives: the cap of the search
CapCrontabs ==
    [minutes : {All}, hours : {All}, days : {List(<<<<13>>>>)},
     months : {All}, days_of_week : {List(<<<<7>>>>)}]

\* crontabs that differ in the way a field is written
FieldCrontabs ==
    [minutes : {All, Repeat(1), Repeat(15), Repeat(60),
                List(<<<<12>>, <<5>>, <<30>>>>),
                List(<<<<20, 30>>, <<8>>, <<6>>, <<4>>, <<10, 19>>>>),
                List(<<<<3, 5>>, <<4>>, <<4>>>>)},
     hours : {All, Repeat(5), Repeat(24)},
     days : {All, Repeat(1), Repeat(2), Repeat(32), List(<<<<2, 4>>>>)},
     months : {All, Repeat(4)},
     days_of_week : {All, Repeat(2), List(<<<<0, 6>>>>)}]

Instant(year, month, day, hour) ==
    [year |-> year, month |-> month, day |-> day, hour |-> hour,
     minute |-> 0]
DayInstants ==
    {Instant(2024, 2, 8, 10), Instant(2024, 2, 20, 10),
     Instant(2024, 1, 15, 10), Instant(2024, 1, 31, 10),
     Instant(2024, 2, 12, 10)}
NextHours == {8, 11}

DayInit ==
    /\ deployment = CHOOSE d \in Deployments : d.hosts = {"h1"}
    /\ scheduler \in
          {CronSchedulerCall(c, s, t) :
              c \in DayCrontabs, s \in BOOLEAN, t \in DayInstants}
          \cup {CronSchedulerCall(c, TRUE, Instant(2024, 2, 8, 10)) :
                   c \in CapCrontabs}
          \cup {CronSchedulerCall(c, FALSE, Instant(2024, 2, 8, 10)) :
                   c \in FieldCrontabs}
    /\ ProcessInit

dayVars == <<db, now, deployment, registrator, monitor, temporary, call,
             hpc, monitorVars, workerVars, nregs, nkills, lastOp,
             handouts, elected, writes>>

\* CronScheduler.__init__
CronNew ==
    /\ scheduler.pc = "args"
    /\ scheduler' = [scheduler EXCEPT
                       !.pc = "new",
                       !.cron_parts = GetCronParts(scheduler.crontab)]
    /\ UNCHANGED dayVars

\* get_next_day(next_hour)
CronGetNextDay ==
    /\ scheduler.pc = "new"
    /\ \E next_hour \in NextHours :
          scheduler' =
             [scheduler EXCEPT
                !.pc = "day", !.next_hour = next_hour,
                !.next_day = GetNextDay(scheduler.cron_parts,
                                        scheduler.strict_mode,
                                        scheduler.previous_schedule,
                                        next_hour)]
    /\ UNCHANGED dayVars

\* the scheduler after get_next_month_and_year has returned: to its
\* caller, or in get_adapted_schedule_for_valid_day_of_week to the end of
\* the iteration, where datetime.datetime(...) makes the new schedule
MonthFound(s, next_month, next_year) ==
    LET found == [s EXCEPT !.next_month = next_month,
                           !.next_year = next_year, !.frame = NoSearch]
        error == DatetimeError(next_year, next_month, s.next_day)
    IN  IF s.adapt < 0 THEN [found EXCEPT !.pc = "month"]
        ELSE IF error # ""
        THEN [found EXCEPT !.pc = "raised", !.error = error]
        ELSE [found EXCEPT
                !.pc = "adapt", !.adapt = @ + 1,
                !.schedule = [s.schedule EXCEPT
                                !.year = next_year, !.month = next_month,
                                !.day = s.next_day]]

\* get_next_month_and_year(next_day, schedule) is called: it returns at
\* once or enters its loop
MonthCalled(s, prev) ==
    LET entered == EnterMonthAndYear(s.cron_parts, prev, s.next_day)
    IN  IF entered.found
        THEN MonthFound(s, entered.next_month, entered.next_year)
        ELSE [s EXCEPT !.pc = "search", !.frame = entered.frame]

\* get_next_month_and_year(next_day)
CronGetNextMonthAndYear ==
    /\ scheduler.pc = "day"
    /\ scheduler' = MonthCalled(scheduler, scheduler.previous_schedule)
    /\ UNCHANGED dayVars

\* one iteration of the for loop of get_next_month_and_year, or the else
\* of the loop: datetime.datetime(...) and the ValueError
CronSearchMonth ==
    /\ scheduler.pc = "search"
    /\ LET f == scheduler.frame
           step == SearchMonthAndYear(scheduler.cron_parts, f)
           error == DatetimeError(f.next_year, f.prev_month, f.next_day)
       IN  scheduler' =
              IF f.n = MAX_ADAPT_SCHEDULE_ITERATION
              THEN [scheduler EXCEPT
                      !.pc = "raised",
                      !.error = IF error # "" THEN error
                                ELSE "max schedule iteration exceeded"]
              ELSE IF step.found
              THEN MonthFound(scheduler, step.next_month, step.next_year)
              ELSE [scheduler EXCEPT !.frame = step.frame]
    /\ UNCHANGED dayVars

\* get_adapted_schedule_for_valid_day_of_week(schedule) is called
CronGetAdaptedSchedule ==
    /\ scheduler.pc = "new"
    /\ scheduler' = [scheduler EXCEPT !.pc = "adapt", !.adapt = 0]
    /\ UNCHANGED dayVars

\* one iteration of the loop of get_adapted_schedule_for_valid_day_of_week
\* up to the call of get_next_month_and_year
CronAdaptSchedule ==
    /\ scheduler.pc = "adapt"
    /\ LET schedule == scheduler.schedule
           weekday == CalendarWeekday(schedule.year, schedule.month,
                                      schedule.day)
           next_day == GetNextDay(scheduler.cron_parts,
                                  scheduler.strict_mode, schedule,
                                  schedule.hour)
       IN  scheduler' =
              IF scheduler.adapt > MAX_ADAPT_SCHEDULE_ITERATION
              THEN [scheduler EXCEPT
                      !.pc = "raised",
                      !.error = "max schedule iteration exceeded"]
              ELSE IF ~InSeq(scheduler.cron_parts.days_of_week, weekday)
              THEN MonthCalled([scheduler EXCEPT !.next_day = next_day],
                               schedule)
              ELSE [scheduler EXCEPT !.pc = "returned"]
    /\ UNCHANGED dayVars

DayNext ==
    \/ CronNew
    \/ CronGetNextDay
    \/ CronGetNextMonthAndYear
    \/ CronSearchMonth
    \/ CronGetAdaptedSchedule
    \/ CronAdaptSchedule

DaySpec == DayInit /\ [][DayNext]_vars

\* ------------------------------------------------ one interface by itself
\* the arguments of a register_task call, as lastOp keeps them
Registered(reg, uuid) ==
    [NoTask EXCEPT !.function_name = reg.function_name,
                   !.crontab = reg.crontab,
                   !.uuid = IF reg.crontab # "" THEN "" ELSE uuid]

\* the uuid argument of the n-th register_task call: a new uuid, as the
\* decorator draws it, or the uuid of the call before
CallUuids(n) == {Uuids[i] : i \in {n - 1, n} \ {0}}

\* the database the interface of the process has
InterfaceDb == IF hpc["h1"] = "import" THEN temporary ELSE db

\* register_task raises (an IntegrityError of result.store) instead of
\* returning
RegisterTaskRaises(d, reg, uuid) ==
    reg.crontab = "" /\ uuid \in DOMAIN d.results

ApiInit ==
    /\ deployment = CHOOSE d \in Deployments : d.hosts = Hosts
    /\ scheduler = NewScheduler(DefaultCronParts, None)
    /\ ProcessInit

\* the process calls a decorated function, imports a decorated one or
\* calls register_task with a uuid of its own;
\* register_task writes to the database the interface has at that time,
\* the temporary one until init_database was called with the file
ApiRegister ==
    /\ hpc["h1"] \in {"import", "inited"}
    /\ nregs < MaxCalls
    /\ \E reg \in Registrations, uuid \in CallUuids(nregs + 1) :
          /\ IF hpc["h1"] = "import"
             THEN /\ temporary' = RegisterIn(temporary, reg, uuid, now)
                  /\ UNCHANGED db
             ELSE /\ db' = RegisterIn(db, reg, uuid, now)
                  /\ UNCHANGED temporary
          /\ lastOp' = OpOn("register_task", "h1",
                            ~RegisterTaskRaises(InterfaceDb, reg, uuid),
                            Registered(reg, uuid))
    /\ nregs' = nregs + 1
    /\ UNCHANGED <<now, deployment, registrator, monitor, scheduler, call, hpc,
                   monitorVars,
                   workerVars, nkills, handouts, elected, writes>>

\* init_database(db_name) of the process: get_tasks, _delete_database,
\* then the tables, the settings row and the copies of the tasks
ApiInitDatabase ==
    /\ hpc["h1"] = "import"
    /\ db' = InitDatabase(db, GetTasks(temporary))
    /\ temporary' = DeleteDatabase(temporary)
    /\ hpc' = [hpc EXCEPT !["h1"] = "inited"]
    /\ lastOp' = OpOn("init_database", "h1", FALSE,
                      [NoTask EXCEPT !.rowid = NextRowid(db.tasks)])
    /\ UNCHANGED <<now, deployment, registrator, monitor, scheduler, call,
                   monitorVars, workerVars,
                   nregs, nkills, handouts, elected, writes>>

\* another process starts on the same file with what it registered while
\* it imported
ApiOtherStart ==
    /\ hpc["h2"] = "import"
    /\ \E regs \in PreRegistrations :
          db' = InitDatabase(db, GetTasks(PreRegistered("h2", regs)))
    /\ hpc' = [hpc EXCEPT !["h2"] = "inited"]
    /\ lastOp' = Op("other", "")
    /\ UNCHANGED <<now, fixedVars, monitorVars, workerVars, nregs, nkills,
                   handouts, elected, writes>>

ApiTick ==
    /\ now < MaxNow
    /\ now' = now + 1
    /\ lastOp' = Op("other", "")
    /\ UNCHANGED <<db, hostVars, monitorVars, workerVars, nregs, nkills,
                   handouts, elected, writes>>

ApiNext ==
    \/ ApiRegister
    \/ ApiInitDatabase
    \/ ApiOtherStart
    \/ ApiTick

ApiSpec == ApiInit /\ [][ApiNext]_vars

\* ------------------------------------------- the db_access wrapper by itself
\* str(err) of the OperationalError of a database another connection has
\* locked, and of one that has another cause
BusyMessage == "database is locked"
OtherMessage == "no such table: task"

\* what one invocation of the wrapped function does: it returns, it raises
\* sqlite3.OperationalError (busy, or another cause), it raises another
\* exception
Outcomes == {"return", "busy", "operational", "error"}

\* delay *= SQLITE_DELAY_INCREMENT_FACTOR (1.5)
DelayIncrement(delay) == (delay * 3) \div 2

\* db_access.wrapper, one turn of the for loop: the function is invoked
\* (the value it returns is the number of the invocation); the loop ends
\* with raise sqlite3.OperationalError(message) after the last turn
DbAccessAttempt(c, outcome) ==
    LET invoked == [c EXCEPT !.attempts = @ + 1,
                             !.retried = IF c.retry_num = 0 THEN @
                                         ELSE @ \cup {c.message}]
    IN  IF outcome = "return"
        THEN [invoked EXCEPT !.state = "returned", !.value = c.attempts + 1]
        ELSE IF outcome = "error"
        THEN [invoked EXCEPT !.state = "raised", !.message = "ValueError"]
        ELSE [invoked EXCEPT
                !.message = IF outcome = "busy" THEN BusyMessage
                                                ELSE OtherMessage,
                !.delay = IF c.retry_num % SQLITE_DELAY_INCREMENT_STEPS = 0
                          THEN DelayIncrement(@) ELSE @,
                !.retry_num = @ + 1,
                !.state = IF c.retry_num + 1 = SQLITE_OPERATIONAL_ERROR_RETRIES
                          THEN "raised" ELSE @]

RetryInit ==
    /\ deployment = CHOOSE d \in Deployments : d.hosts = {"h1"}
    /\ scheduler = NewScheduler(DefaultCronParts, None)
    /\ ProcessInit

\* a process calls a method of the interface that db_access decorates
RetryCall ==
    /\ call.state = "none"
    /\ call' = [NoCall EXCEPT !.state = "running",
                              !.delay = SQLITE_OPERATIONAL_ERROR_DELAY]
    /\ UNCHANGED <<db, now, deployment, registrator, monitor, scheduler,
                   temporary, hpc, monitorVars, workerVars, nregs, nkills,
                   lastOp, handouts, elected, writes>>

RetryAttempt(outcome) ==
    /\ call.state = "running"
    /\ call' = DbAccessAttempt(call, outcome)
    /\ UNCHANGED <<db, now, deployment, registrator, monitor, scheduler,
                   temporary, hpc, monitorVars, workerVars, nregs, nkills,
                   lastOp, handouts, elected, writes>>

RetryNext ==
    \/ RetryCall
    \/ \E outcome \in Outcomes : RetryAttempt(outcome)

RetrySpec == RetryInit /\ [][RetryNext]_vars

\* ------------------------------------ init_database on a busy database
\* init_database(db_name) as db_access invokes it, one invocation: with a
\* temporary database it reads the tasks and deletes that database, then
\* db_name is the file; BEGIN EXCLUSIVE on the file raises 'database is
\* locked' (outcome "busy") or the tables, the settings row and the tasks
\* are written (outcome "return"). An invocation that follows a busy one
\* finds has_temporary_database false: its tasks are []. The file is busy
\* only if another process has created it
BusyInitDatabase(outcome) ==
    /\ hpc["h1"] \in {"import", "busy"}
    /\ outcome = "busy" => call.retry_num < MaxBusy /\ db # EmptyDatabase
    /\ LET has_temporary_database == hpc["h1"] = "import"
           tasks == IF has_temporary_database THEN GetTasks(temporary)
                                              ELSE <<>>
           entered == IF has_temporary_database
                      THEN [NoCall EXCEPT
                              !.state = "running",
                              !.delay = SQLITE_OPERATIONAL_ERROR_DELAY,
                              !.tasks = tasks]
                      ELSE call
       IN  /\ temporary' = IF has_temporary_database
                           THEN DeleteDatabase(temporary) ELSE temporary
           /\ call' = DbAccessAttempt(entered, outcome)
           /\ db' = IF outcome = "return" THEN InitDatabase(db, tasks)
                                          ELSE db
    /\ hpc' = [hpc EXCEPT !["h1"] = IF outcome = "return" THEN "inited"
                                                          ELSE "busy"]
    /\ lastOp' = OpOn("init_database", "h1", outcome = "return",
                      [NoTask EXCEPT !.rowid = NextRowid(db.tasks)])
    /\ UNCHANGED <<now, deployment, registrator, monitor, scheduler,
                   monitorVars, workerVars, nregs, nkills, handouts, elected,
                   writes>>

BusyNext ==
    \/ ApiRegister
    \/ \E outcome \in {"busy", "return"} : BusyInitDatabase(outcome)
    \/ ApiOtherStart
    \/ ApiTick

BusySpec == ApiInit /\ [][BusyNext]_vars

\* ------------------------------------------------ one Monitor by itself
\* Monitor.start_subprocess: a new worker process, appended to
\* sub_processes
StartSubprocess(m) ==
    [m EXCEPT !.sub_processes = Append(@, m.spawned + 1), !.spawned = @ + 1]

\* decrement_running_workers(pid) with no other process writing
DecrementRunningWorkers(d, pid) ==
    IF InSeq(SettingsRead(d).worker_pids, pid)
    THEN SettingsUpdate(d, DecrementedSettings(SettingsRead(d), pid))
    ELSE d

\* Monitor.monitor_workers from position i of its for loop: the list
\* iterator of Python keeps an index into sub_processes, which the body
\* changes (remove shifts the later entries down, start_subprocess
\* appends); the result is the monitor and the database after the pass
RECURSIVE MonitorWorkers(_, _, _)
MonitorWorkers(m, d, i) ==
    IF i > Len(m.sub_processes) THEN [monitor |-> m, db |-> d]
    ELSE LET process == m.sub_processes[i]
         IN  IF process \in m.exited
             THEN MonitorWorkers(
                     StartSubprocess(
                        [m EXCEPT !.sub_processes = RemoveFirst(@, process)]),
                     DecrementRunningWorkers(d, process), i + 1)
             ELSE MonitorWorkers(m, d, i + 1)

\* Monitor.start_workers
RECURSIVE StartWorkers(_, _)
StartWorkers(m, n) ==
    IF n = 0 THEN m ELSE StartWorkers(StartSubprocess(m), n - 1)

monVars == <<now, deployment, scheduler, temporary, call, registrator, hpc,
             monitorVars, workerVars, nregs, nkills, lastOp, handouts,
             elected, writes>>

\* the monitor process starts on a file whose settings have max_workers
\* = n: Monitor.__init__ (init_database), then run() calls start_workers
MonStart ==
    /\ ~monitor.running
    /\ \E n \in 1..MaxWorkers :
          LET inited == InitDatabase(db, EmptyTable)
              d == SettingsUpdate(inited,
                      [SettingsRead(inited) EXCEPT !.max_workers = n])
          IN  /\ db' = d
              /\ monitor' = [StartWorkers(monitor, n) EXCEPT
                               !.running = TRUE]
    /\ UNCHANGED monVars

\* a worker process calls increment_running_workers(pid)
MonWorkerIncrement ==
    /\ \E pid \in Range(monitor.sub_processes) \ monitor.exited :
          /\ ~InSeq(SettingsRead(db).worker_pids, pid)
          /\ db' = SettingsUpdate(db,
                      IncrementedSettings(SettingsRead(db), pid))
    /\ UNCHANGED <<monitor, monVars>>

\* a worker process of the monitor ends
MonWorkerExit ==
    /\ \E pid \in Range(monitor.sub_processes) \ monitor.exited :
          monitor' = [monitor EXCEPT !.exited = @ \cup {pid}]
    /\ UNCHANGED <<db, monVars>>

\* one pass of the loop of Monitor.run: monitor_workers (at most MaxPids
\* processes are started)
MonPass ==
    /\ monitor.running
    /\ monitor.spawned
          + Cardinality(Range(monitor.sub_processes) \cap monitor.exited)
          <= MaxPids
    /\ LET pass == MonitorWorkers(monitor, db, 1)
       IN  monitor' = pass.monitor /\ db' = pass.db
    /\ UNCHANGED monVars

MonNext ==
    \/ MonStart
    \/ MonWorkerIncrement
    \/ MonWorkerExit
    \/ MonPass

MonSpec == RetryInit /\ [][MonNext]_vars

\* ---------------------------------------------------- the TaskRegistrator
\* interface.register_task(**data) as the registrator calls it; the item
\* is noted in the order of the invocations
Passed(r, item) == [r EXCEPT !.registered = Append(@, item)]

\* TaskRegistrator.register: the data goes to the queue if
\* registration_thread is set, else register_task is called at once (a
\* blocking call in the thread of the caller)
Register(r) ==
    LET item == r.calls + 1
        called == [r EXCEPT !.calls = item]
    IN  IF r.registration_thread # NoThread
        THEN [called EXCEPT !.task_queue = Append(@, item)]
        ELSE Passed(called, item)

\* TaskRegistrator.start: a new thread unless registration_thread is set
Start(r) ==
    IF r.registration_thread = NoThread
    THEN LET t == CHOOSE t \in Threads :
                     /\ r.pc[t] = "none"
                     /\ \A u \in Threads : r.pc[u] = "none" => t <= u
         IN  [r EXCEPT !.registration_thread = t, !.pc[t] = "get"]
    ELSE r

\* TaskRegistrator.stop: the event is set and registration_thread is
\* None again; the thread itself runs on until it looks at the event
Stop(r) ==
    LET noted == [r EXCEPT !.accepted = r.calls]
    IN  IF r.registration_thread # NoThread
        THEN [noted EXCEPT !.exit_event = TRUE,
                           !.registration_thread = NoThread]
        ELSE noted

\* _process_queue of thread t, one pass of the loop up to the call of
\* register_task: task_queue.get returns the head of the queue, or it
\* raises queue.Empty after the timeout and the thread breaks out of the
\* loop if the event is set
ProcessQueue(r, t) ==
    IF r.task_queue # <<>>
    THEN [r EXCEPT !.data[t] = Head(r.task_queue),
                   !.task_queue = Tail(@),
                   !.pc[t] = "register"]
    ELSE IF r.exit_event THEN [r EXCEPT !.pc[t] = "exited"] ELSE r

\* what the producer registers: a delayed task, item i with uuid i
Item == [function_name |-> "tst_add", crontab |-> "", delay |-> 0]

\* register_task for an item on the database the interface has
StoreItem(item) ==
    IF hpc["h1"] = "import"
    THEN /\ temporary' = RegisterIn(temporary, Item, Uuids[item], now)
         /\ UNCHANGED db
    ELSE /\ db' = RegisterIn(db, Item, Uuids[item], now)
         /\ UNCHANGED temporary

RegInit ==
    /\ deployment = CHOOSE d \in Deployments : d.hosts = {"h1"}
    /\ scheduler = NewScheduler(DefaultCronParts, None)
    /\ ProcessInit

regVars == <<now, deployment, scheduler, call, monitor, hpc, monitorVars,
             workerVars, nregs, nkills, lastOp, handouts, elected, writes>>

\* the producer calls register()
RegRegister ==
    /\ registrator.calls < MaxItems
    /\ registrator' = Register(registrator)
    /\ IF registrator.registration_thread = NoThread
       THEN StoreItem(registrator.calls + 1)
       ELSE UNCHANGED <<db, temporary>>
    /\ UNCHANGED regVars

\* Engine.start calls start() (at most MaxThreads threads are created)
RegStart ==
    /\ registrator.registration_thread = NoThread
    /\ \E t \in Threads : registrator.pc[t] = "none"
    /\ registrator' = Start(registrator)
    /\ UNCHANGED <<db, temporary, regVars>>

\* Engine.stop calls stop()
RegStop ==
    /\ registrator' = Stop(registrator)
    /\ UNCHANGED <<db, temporary, regVars>>

\* thread t waits at task_queue.get
RegGet(t) ==
    /\ registrator.pc[t] = "get"
    /\ registrator' = ProcessQueue(registrator, t)
    /\ UNCHANGED <<db, temporary, regVars>>

\* thread t calls register_task with the data it took
RegStore(t) ==
    /\ registrator.pc[t] = "register"
    /\ registrator' = [Passed(registrator, registrator.data[t])
                          EXCEPT !.pc[t] = "get", !.data[t] = 0]
    /\ StoreItem(registrator.data[t])
    /\ UNCHANGED regVars

RegNext ==
    \/ RegRegister
    \/ RegStart
    \/ RegStop
    \/ \E t \in Threads : RegGet(t) \/ RegStore(t)
    \/ ApiInitDatabase

RegSpec == RegInit /\ [][RegNext]_vars

\* ------------------------------------------------------------ the claims
CrontaskRows(tasks) == {r \in DOMAIN tasks : tasks[r].crontab # ""}

\* C1: no two get_next_task calls return the same task row unless the row
\* was set back to WAITING (by update_task_schedule or tear_down_database)
\* between the two calls: every row has been handed out at most once since
\* it was inserted or last set back to WAITING.
C1_HandedToOneCaller ==
    \A r \in DOMAIN handouts : handouts[r] <= 1

\* two workers hold two different rows at the same time, each handed out
\* once
C1_Witness ==
    \E w1, w2 \in Workers :
        /\ w1 # w2
        /\ wpc[w1] \in {"claimed", "update_result", "postprocess"}
        /\ wpc[w2] \in {"claimed", "update_result", "postprocess"}
        /\ task[w1].rowid # task[w2].rowid
        /\ task[w1].rowid \in DOMAIN handouts
        /\ task[w2].rowid \in DOMAIN handouts
        /\ handouts[task[w1].rowid] = 1
        /\ handouts[task[w2].rowid] = 1

\* C2: in every reachable state there is at most one task row with a
\* non-empty crontab per function.
C2_OneCrontaskPerFunction ==
    \A r1, r2 \in CrontaskRows(db.tasks) :
        db.tasks[r1].function_name = db.tasks[r2].function_name => r1 = r2

\* C3: in every reachable state every task row with a non-empty uuid has a
\* result row with the same uuid.
C3_ResultForEveryTaskWithUuid ==
    \A r \in DOMAIN db.tasks :
        db.tasks[r].uuid # "" => db.tasks[r].uuid \in DOMAIN db.results

\* C4: once an acquire_monitor_lock call has returned true, monitor_lock
\* stays true and no other call returns true until tear_down_database
\* clears the flag.
C4_LockHeldUntilTearDown ==
    elected >= 1 => (elected = 1 /\ SettingsRead(db).monitor_lock)

\* the task rows that are PROCESSING and that no running worker holds
Leftover(tasks) ==
    {r \in ProcessingRows(tasks) : \A w \in Workers : task[w].rowid # r}

\* C5: when init_database has returned to a starting host, no task row
\* left PROCESSING by a crashed or killed worker is still PROCESSING.
C5_InitDatabaseRecovers ==
    lastOp.op = "init_database" => Leftover(db.tasks) = {}

\* C6: when no worker process has been killed, the result of a uuid is
\* written by update_result at most once.
C6_ResultWrittenOnce ==
    (\A w \in Workers : wpc[w] # "killed") =>
        \A u \in AllUuids : writes[u] <= 1

\* the function of task t is found and returns a value without raising
Returns(t) ==
    Resolvable(t.function_name) /\ ~Raises(t.function_name, t.args)

\* what C7 and its amendment say of the database when handle_task has
\* returned True for the delayed task t
Handled(t) ==
    /\ t.rowid \notin DOMAIN db.tasks
    /\ t.uuid \in DOMAIN db.results
    /\ db.results[t.uuid].status = TASK_STATUS_READY
    /\ GetResultValue(db, t.uuid) = CallFunction(t.function_name, t.args)

C8_CrontaskRescheduled ==
    lastOp.op = "update_task_schedule" =>
        /\ lastOp.task.rowid \in DOMAIN db.tasks
        /\ db.tasks[lastOp.task.rowid].status = TASK_STATUS_WAITING
        /\ db.tasks[lastOp.task.rowid].schedule # NULL
        /\ db.tasks[lastOp.task.rowid].schedule > now

\* C10: immediately after tear_down_database has committed there is no
\* crontask row, no PROCESSING row, monitor_lock is false, running_workers
\* is 0 and worker_pids is empty.
C10_TornDown ==
    lastOp.op = "tear_down_database" =>
        /\ CrontaskRows(db.tasks) = {}
        /\ ProcessingRows(db.tasks) = {}
        /\ ~SettingsRead(db).monitor_lock
        /\ SettingsRead(db).running_workers = 0
        /\ SettingsRead(db).worker_pids = <<>>

\* tear_down_database has just committed while a worker was executing a
\* task, whose row is WAITING again
C10_Witness ==
    /\ lastOp.op = "tear_down_database"
    /\ \E w \in Workers :
          /\ wpc[w] \in {"update_result", "postprocess"}
          /\ task[w].rowid \in DOMAIN db.tasks
          /\ db.tasks[task[w].rowid].status = TASK_STATUS_WAITING

\* ---- the calendar the scheduler claims are stated in
Calendar ==
    {d \in [year : 2024..2025, month : 1..12, day : 1..31, hour : 0..23,
            minute : 0..59] : d.day <= GetDaysPerMonth(d.year, d.month)}

\* the day of the week as crontabs count it: Sunday is 0, Monday is 1
Weekday(d) == (DaysBefore(d.year, d.month) + d.day) % 7

Earlier(a, b) ==
    \/ a.year < b.year
    \/ a.year = b.year /\ a.month < b.month
    \/ a.year = b.year /\ a.month = b.month /\ a.day < b.day
    \/ a.year = b.year /\ a.month = b.month /\ a.day = b.day
        /\ a.hour < b.hour
    \/ a.year = b.year /\ a.month = b.month /\ a.day = b.day
        /\ a.hour = b.hour /\ a.minute < b.minute

Matches(cron_parts, d) ==
    /\ InSeq(cron_parts.minutes, d.minute)
    /\ InSeq(cron_parts.hours, d.hour)
    /\ InSeq(cron_parts.days, d.day)
    /\ InSeq(cron_parts.months, d.month)
    /\ InSeq(cron_parts.days_of_week, Weekday(d))

\* C9: what get_next_schedule returns for a crontab and a reference
\* instant t is an instant r after t that matches the crontab in all five
\* fields, and no instant between t and r matches the crontab.
C9_NextFireTime ==
    scheduler.called =>
        LET t == scheduler.previous_schedule[1]
            r == scheduler.next_schedule
        IN  /\ r # None
            /\ Earlier(t, r[1])
            /\ Matches(scheduler.cron_parts, r[1])
            /\ \A d \in Calendar :
                  Earlier(t, d) /\ Earlier(d, r[1])
                      => ~Matches(scheduler.cron_parts, d)

\* the previous run has shut down cleanly: the monitor has torn down the
\* database and sent SIGTERM, every worker has left its loop, no process
\* was killed and no worker died of an exception
CleanShutdown ==
    /\ nkills = 0
    /\ \E h \in Hosts : mpc[h] = "done"
    /\ \A h \in Hosts : mpc[h] \in {"off", "done"}
    /\ \A w \in Workers : wpc[w] \in {"off", "exited"}

\* the rows that were in the database before the last init_database
RowsBefore(tasks) == {r \in DOMAIN tasks : r < lastOp.task.rowid}

\* C11: after a clean shutdown and the next init_database no crontask row
\* of the previous run remains, and every delayed task of the previous run
\* that is still in the database has status WAITING.
C11_WaitingAfterRestart ==
    (lastOp.op = "init_database" /\ CleanShutdown) =>
        \A r \in RowsBefore(db.tasks) :
            /\ db.tasks[r].crontab = ""
            /\ db.tasks[r].status = TASK_STATUS_WAITING

\* C12: when the function of a claimed task has raised an exception, the
\* worker has caught it: a delayed task is deleted and its result is ERROR
\* with a non-empty error_message, a crontask (unless a tear-down has
\* deleted it meanwhile) is WAITING again with a new schedule, and the
\* worker is still in its dispatch loop.
C12_ExceptionCaught ==
    LET t == lastOp.task
    IN  /\ (lastOp.op = "delete_task" /\ t.uuid # ""
                /\ Raises(t.function_name, t.args)) =>
            /\ t.rowid \notin DOMAIN db.tasks
            /\ t.uuid \in DOMAIN db.results
            /\ db.results[t.uuid].status = TASK_STATUS_ERROR
            /\ Truthy(db.results[t.uuid].error_message)
            /\ wpc[lastOp.proc] = "loop"
        /\ (lastOp.op = "update_task_schedule"
                /\ Raises(t.function_name, t.args)
                /\ t.rowid \in DOMAIN db.tasks) =>
            /\ db.tasks[t.rowid].status = TASK_STATUS_WAITING
            /\ db.tasks[t.rowid].schedule # NULL
            /\ wpc[lastOp.proc] = "loop"

\* C12 without the new schedule of the crontask: the exception is caught,
\* the result of a delayed task is ERROR and its row is deleted, the row of
\* a crontask is WAITING, and the worker is still in its dispatch loop
C12_CaughtNoSchedule ==
    LET t == lastOp.task
    IN  /\ (lastOp.op = "delete_task" /\ t.uuid # ""
                /\ Raises(t.function_name, t.args)) =>
            /\ t.rowid \notin DOMAIN db.tasks
            /\ t.uuid \in DOMAIN db.results
            /\ db.results[t.uuid].status = TASK_STATUS_ERROR
            /\ Truthy(db.results[t.uuid].error_message)
            /\ wpc[lastOp.proc] = "loop"
        /\ (lastOp.op = "update_task_schedule"
                /\ Raises(t.function_name, t.args)
                /\ t.rowid \in DOMAIN db.tasks) =>
            /\ db.tasks[t.rowid].status = TASK_STATUS_WAITING
            /\ wpc[lastOp.proc] = "loop"

\* C13: when the function of a claimed task could not be looked up, the
\* result of a delayed task is ERROR, the task row is deleted or WAITING
\* and not left PROCESSING, and the worker is still running.
C13_LookupFailureHandled ==
    LET t == lastOp.task
    IN  lastOp.op = "lookup_failed" =>
            /\ t.uuid # "" =>
                  /\ t.uuid \in DOMAIN db.results
                  /\ db.results[t.uuid].status = TASK_STATUS_ERROR
            /\ t.rowid \in DOMAIN db.tasks =>
                  db.tasks[t.rowid].status # TASK_STATUS_PROCESSING
            /\ WorkerAlive(lastOp.proc)

\* the rows get_next_task may hand out at the instant nowv: WAITING, with a
\* schedule that is not later than nowv; the crontasks among them
DueRows(tasks, nowv) ==
    {r \in DOMAIN tasks :
        /\ tasks[r].status = TASK_STATUS_WAITING
        /\ tasks[r].schedule # NULL
        /\ tasks[r].schedule <= nowv}
DueCrontasks(tasks, nowv) == DueRows(tasks, nowv) \cap CrontaskRows(tasks)

\* the step of worker w is its call of get_next_task
GetNextTaskStep(w) == wpc[w] = "loop" /\ wpc'[w] \in {"claimed", "idle"}

\* C14: get_next_task returns a due WAITING crontask whenever one exists,
\* otherwise a due WAITING task of any kind, otherwise nothing; the row it
\* returns (one whose schedule equals now included) is stored as
\* PROCESSING when the call returns.
C14_NextTask ==
    [][\A w \in Workers : GetNextTaskStep(w) =>
          LET r == task'[w].rowid
          IN  /\ IF DueCrontasks(db.tasks, now) # {}
                 THEN r \in DueCrontasks(db.tasks, now)
                 ELSE IF DueRows(db.tasks, now) # {}
                 THEN r \in DueRows(db.tasks, now)
                 ELSE r = 0
              /\ r # 0 => /\ db'.tasks[r].status = TASK_STATUS_PROCESSING
                          /\ task'[w].status = TASK_STATUS_PROCESSING
              /\ \A q \in DOMAIN db.tasks \ {r} : db'.tasks[q] = db.tasks[q]
      ]_vars

\* a worker holds a crontask it was handed at the very instant of the
\* task's schedule, while a delayed task with a smaller rowid is due and
\* WAITING
C14_Witness ==
    \E w \in Workers :
        /\ wpc[w] = "claimed"
        /\ task[w].crontab # ""
        /\ task[w].schedule = now
        /\ task[w].rowid \in ProcessingRows(db.tasks)
        /\ \E q \in DueRows(db.tasks, now) :
              q < task[w].rowid /\ db.tasks[q].crontab = ""

\* C15: whenever get_next_task returns a task t, no other due WAITING task
\* of the same class (crontasks, other tasks) has a schedule earlier than
\* t.schedule.
C15_ClaimedInScheduleOrder ==
    [][\A w \in Workers : (GetNextTaskStep(w) /\ task'[w].rowid # 0) =>
          \A q \in DueRows(db.tasks, now) :
              (db.tasks[q].crontab # "") = (task'[w].crontab # "")
                  => db.tasks[q].schedule >= task'[w].schedule
      ]_vars

\* the step is a register_task call on the interface by itself
RegisterStep == nregs' = nregs + 1 /\ lastOp'.op = "register_task"

\* the task rows of a function
RowsOf(tasks, function_name) ==
    {r \in DOMAIN tasks : tasks[r].function_name = function_name}

MigrationStep == hpc["h1"] = "import" /\ hpc'["h1"] = "inited"

\* the columns that make a task: the function, its arguments, when and how
\* often it runs
SameTask(a, b) ==
    /\ a.function_name = b.function_name
    /\ a.function_arguments = b.function_arguments
    /\ a.schedule = b.schedule
    /\ a.crontab = b.crontab

NoTearDown ==
    /\ \A h \in Hosts : hpc[h] # "stopped"
    /\ \A h \in Hosts : mpc[h] \notin {"tear_down", "stop_workers", "done"}
    /\ \A w \in Workers : active[w]

\* the workers whose increment_running_workers call has returned, and
\* those of them whose pid the monitor has passed to a
\* decrement_running_workers call that has returned
Incremented == {w \in Workers : wpc[w] \notin {"off", "init", "increment"}}
Decremented ==
    {w \in Incremented : w \notin Range(sub_processes[monitor_pid[w]])}

\* C18: whatever the interleaving of the increment_running_workers and
\* decrement_running_workers calls of the processes, running_workers is
\* the number of pids in worker_pids and is not negative, and worker_pids
\* holds exactly the pids that were incremented and not decremented.
C18_WorkersCounted ==
    (db.settings # <<>> /\ NoTearDown) =>
        LET settings == SettingsRead(db)
        IN  /\ settings.running_workers = Len(settings.worker_pids)
            /\ settings.running_workers >= 0
            /\ Range(settings.worker_pids) = Incremented \ Decremented

\* C19: the wrapper invokes the operation again only after a 'database
\* busy' OperationalError, returns the result of the first invocation that
\* succeeds, invokes it at most 100 times, raises the busy error only when
\* all 100 have failed, and lets any other exception through when it
\* first occurs.
C19_RetryOnBusyOnly ==
    /\ call.retried \subseteq {BusyMessage}
    /\ call.attempts <= SQLITE_OPERATIONAL_ERROR_RETRIES
    /\ call.state = "returned" => call.value = call.attempts
    /\ (call.state = "raised" /\ call.message = BusyMessage)
          => call.attempts = SQLITE_OPERATIONAL_ERROR_RETRIES
    /\ (call.state = "raised" /\ call.message # BusyMessage)
          => call.message \notin call.retried

\* what holds of the wrapper as it is: every OperationalError is followed
\* by another invocation
C19_RetryOnOperationalError ==
    /\ call.retried \subseteq {BusyMessage, OtherMessage}
    /\ call.attempts <= SQLITE_OPERATIONAL_ERROR_RETRIES
    /\ call.state = "returned" => call.value = call.attempts
    /\ (call.state = "raised" /\ call.message \in {BusyMessage, OtherMessage})
          => call.attempts = SQLITE_OPERATIONAL_ERROR_RETRIES

\* the step of worker w is its call of delete_outdated_results
DeleteOutdatedStep(w) == wpc[w] = "idle" /\ wpc'[w] # "idle"

\* the results delete_outdated_results has to delete at the instant nowv
Outdated(results, nowv) ==
    {u \in DOMAIN results :
        /\ results[u].status \in {TASK_STATUS_READY, TASK_STATUS_ERROR}
        /\ results[u].ttl <= nowv}

C20_WaitingKept ==
    /\ lastOp.op = "delete_outdated_results"
    /\ \E v \in DOMAIN db.results :
          db.results[v].status = TASK_STATUS_WAITING /\ db.results[v].ttl <= now

\* delete_outdated_results has returned and a completed result whose ttl
\* is ahead is there
C20_CompletedKept ==
    /\ lastOp.op = "delete_outdated_results"
    /\ \E v \in DOMAIN db.results :
          db.results[v].status = TASK_STATUS_READY /\ db.results[v].ttl > now

\* the monitor processes that are running
RunningMonitors == {h \in Hosts : MonitorAlive(h)}

\* C21: whatever the hosts that start and stop on the database, and the
\* tear-downs of monitors and workers in between, at most one monitor
\* process is running at any instant, and monitor_lock is true whenever
\* one is running.
C21_OneMonitor ==
    /\ Cardinality(RunningMonitors) <= 1
    /\ RunningMonitors # {} => SettingsRead(db).monitor_lock

\* the worker processes that are running
LiveWorkers == {w \in Workers : WorkerAlive(w)}

\* C22: at every instant the number of task rows with status PROCESSING
\* is at most the number of live worker processes, also after a worker
\* has ended while it held a task.
C22_ProcessingBounded ==
    Cardinality(ProcessingRows(db.tasks)) <= Cardinality(LiveWorkers)

\* the step is an init_database call: of a host that starts, of the
\* monitor or of a worker (Monitor.__init__ and Worker.__init__ call it)
InitDatabaseStep ==
    \/ \E h \in Hosts : hpc[h] = "import" /\ hpc'[h] = "inited"
    \/ \E h \in Hosts : mpc[h] = "init" /\ mpc'[h] = "loop"
    \/ \E w \in Workers : wpc[w] = "init" /\ wpc'[w] = "increment"

\* C23: the settings table holds exactly one row in every state the
\* database file exists in: the first init_database inserts the row with
\* the default values, every later init_database on the file, by whatever
\* process, neither adds a row nor changes the stored values.
C23_OneSettingsRow ==
    [][/\ db.settings # <<>> => Len(db'.settings) = 1
       /\ InitDatabaseStep =>
             /\ Len(db'.settings) = 1
             /\ db'.settings = IF db.settings = <<>>
                               THEN <<SETTINGS_DEFAULT_DATA>>
                               ELSE db.settings
      ]_vars

\* a host has called init_database on a file whose settings row another
\* host has changed: the lock is set and max_workers is not the default
C23_Witness ==
    /\ lastOp.op = "init_database"
    /\ Len(db.settings) = 1
    /\ SettingsRead(db).monitor_lock
    /\ SettingsRead(db) # SETTINGS_DEFAULT_DATA

\* the monitor of host h has ended after its tear-down and the workers it
\* had spawned have all left their loop
ShutDown(h) ==
    /\ mpc[h] = "done"
    /\ \A w \in Range(sub_processes[h]) : Exited(w)

\* C24: when the host process of a running monitor is no longer alive, the
\* monitor (unless it is killed) eventually leaves its loop, calls
\* tear_down_database, signals every worker it has spawned and ends, and
\* every such worker eventually leaves its loop.
C24_HostDeathShutsDown ==
    \A h \in Hosts :
        (hpc[h] = "dead" /\ MonitorAlive(h))
            ~> (ShutDown(h) \/ mpc[h] = "killed")

\* the host is dead, its monitor is in its loop and a worker of it holds
\* a task
C24_Witness ==
    \E h \in Hosts, w \in Workers :
        /\ hpc[h] = "dead"
        /\ mpc[h] = "loop"
        /\ monitor_pid[w] = h
        /\ wpc[w] = "claimed"

\* the threads of the registrator that have ended, and those that run
ExitedThreads == {t \in Threads : registrator.pc[t] = "exited"}
RunningThreads == {t \in Threads : registrator.pc[t] \in {"get", "register"}}

\* C25: every item that register() accepted before stop() was called is
\* passed to register_task before the registrator thread exits: once the
\* threads that start() created have exited, register_task has been
\* invoked with every item accepted before the last call of stop().
C25_QueueDrained ==
    (ExitedThreads # {} /\ RunningThreads = {})
        => \A item \in 1..registrator.accepted :
              item \in Range(registrator.registered)
\* the same for a registrator whose start() created one thread only
C25_StartedOnce ==
    (registrator.pc[1] = "exited" /\ registrator.pc[2] = "none")
        => \A item \in 1..registrator.accepted :
              item \in Range(registrator.registered)

\* C26: register_task is invoked for the registrations of the single
\* producer in the order of its register() calls, whatever the
\* interleaving of register() with start() and stop(): the items in the
\* order of the invocations are in ascending order.
C26_RegisteredInOrder ==
    \A i, j \in DOMAIN registrator.registered :
        i < j => registrator.registered[i] < registrator.registered[j]
\* the same while stop() has not been called with a thread set
C26_InOrderUntilStop ==
    ~registrator.exit_event => C26_RegisteredInOrder

\* C27: register_task is atomic. If a statement inside its exclusive
\* transaction fails (the insert of a Result whose uuid already exists)
\* the transaction is rolled back: neither the Task row nor the Result row
\* of that call is in the database afterwards, the database is as it was
\* before the call; and no call leaves a Task row with a uuid without the
\* Result row of that uuid.
C27_RegisterTaskAtomic ==
    [][RegisterStep =>
          LET d == InterfaceDb
              after == IF hpc["h1"] = "import" THEN temporary' ELSE db'
              u == lastOp'.task.uuid
          IN  /\ (u # "" /\ u \in DOMAIN d.results)
                    => db' = db /\ temporary' = temporary
              /\ (u # "" /\ Len(after.tasks) > Len(d.tasks))
                    => u \in DOMAIN after.results \ DOMAIN d.results]_vars
\* the second call had the uuid of the first, a delayed task: one Task
\* row and one Result row are in the database
C27_Witness ==
    /\ hpc["h1"] = "import" /\ nregs = 2
    /\ lastOp.op = "register_task" /\ lastOp.task.uuid = Uuids[1]
    /\ DOMAIN temporary.results = {Uuids[1]}
    /\ Len(temporary.tasks) = 1
    /\ temporary.tasks[1].uuid = Uuids[1]

\* a worker has run process_task on the task it claimed
ProcessTaskStep ==
    \E w \in Workers : /\ wpc[w] = "claimed"
                       /\ wpc'[w] \in {"update_result", "postprocess"}

\* C28: with accept_registrations false, as every worker has it,
\* register_task is a no-op: the register call of a decorated function
\* that a worker imports and calls inside a task inserts no Task row and
\* no Result row and changes nothing else in the database.
C28_WorkerRegistersNothing == [][ProcessTaskStep => db' = db]_vars
\* a worker has imported the module and called the delayed function while
\* the crontask of the module has no row
C28_Witness ==
    \E w \in Workers :
        /\ wpc[w] = "update_result"
        /\ task[w].function_name = "tst_add"
        /\ GetByFunctionName(db.tasks, "tst_cron") = 0

\* worker w has run postprocess_task on the task it claimed
PostprocessStep(w) == wpc[w] = "postprocess" /\ wpc'[w] = "loop"

\* the row that has the rowid of a Task instance is the row the instance
\* was read from
IsRowOf(tasks, t) ==
    /\ t.rowid \in DOMAIN tasks
    /\ tasks[t.rowid].uuid = t.uuid
    /\ tasks[t.rowid].function_name = t.function_name
    /\ tasks[t.rowid].crontab = t.crontab

\* C29: delete_task and update_task_schedule of a worker affect only the
\* Task row that this worker claimed: every other row is left as it is,
\* and a row that is deleted or overwritten is the row of the claimed
\* task, not a task that got its rowid later.
C29_OnlyClaimedRow ==
    [][\A w \in Workers :
          PostprocessStep(w) =>
             /\ \A r \in DOMAIN db.tasks \ {task[w].rowid} :
                   r \in DOMAIN db'.tasks /\ db'.tasks[r] = db.tasks[r]
             /\ db'.tasks # db.tasks => IsRowOf(db.tasks, task[w])]_vars

\* the delayed task with uuid u has a row that is WAITING and due
DelayedDue(u) ==
    \E r \in DOMAIN db.tasks :
        /\ db.tasks[r].uuid = u
        /\ db.tasks[r].crontab = ""
        /\ db.tasks[r].status = TASK_STATUS_WAITING
        /\ IsDue(db.tasks[r], now)

\* the Result of uuid u is READY or ERROR
Completed(u) ==
    /\ u \in DOMAIN db.results
    /\ db.results[u].status \in {TASK_STATUS_READY, TASK_STATUS_ERROR}

\* C30: while no process is killed (a worker keeps running), every
\* registered delayed task whose schedule has passed is eventually claimed
\* and its Result eventually leaves WAITING and is READY or ERROR.
C30_DelayedCompleted ==
    \A u \in AllUuids :
        (DelayedDue(u) /\ LiveWorkers # {})
            ~> (Completed(u) \/ nkills > 0)
\* the same for the tasks that have a Result row and a function that the
\* worker can look up
C30_ResolvableCompleted ==
    \A u \in AllUuids :
        (/\ DelayedDue(u) /\ LiveWorkers # {}
         /\ u \in DOMAIN db.results
         /\ \A r \in DOMAIN db.tasks :
               db.tasks[r].uuid = u => Resolvable(db.tasks[r].function_name))
            ~> (Completed(u) \/ nkills > 0)

\* the init_database call of the process returns
InitDatabaseReturns == hpc["h1"] \in {"import", "busy"} /\ hpc'["h1"] = "inited"

\* C31: pre-registered tasks survive contention. When init_database(file)
\* returns, after busy invocations or not, the file is what a first
\* invocation that succeeds makes of it: every task that was read from the
\* temporary database is a row of the file.
C31_TasksSurviveBusy ==
    [][InitDatabaseReturns => db' = InitDatabase(db, call'.tasks)]_vars
\* the same for a call whose first invocation returns
C31_FirstAttempt ==
    [][(hpc["h1"] = "import" /\ hpc'["h1"] = "inited")
          => db' = InitDatabase(db, call'.tasks)]_vars

\* a process writes the settings row in increment_running_workers or in
\* decrement_running_workers
WorkersWriteStep ==
    \/ \E w \in Workers : wpc[w] = "increment" /\ wpc'[w] = "loop"
    \/ \E h \in Hosts : mpc[h] = "decrement" /\ mpc'[h] = "monitor_workers"

\* C32: increment_running_workers and decrement_running_workers change
\* only worker_pids and running_workers: monitor_lock and max_workers are
\* after the write what they were just before it, also when another
\* process committed a settings write after the row was read.
C32_OtherColumnsKept ==
    [][(WorkersWriteStep /\ db.settings # <<>>) =>
          /\ db'.settings # <<>>
          /\ SettingsRead(db').monitor_lock = SettingsRead(db).monitor_lock
          /\ SettingsRead(db').max_workers = SettingsRead(db).max_workers
      ]_vars

\* the monitor has made a pass of its loop in which it found a worker
\* that had exited (no other step starts a process of a running monitor)
PassStep == monitor.running /\ monitor'.spawned # monitor.spawned

\* the workers in the set of the monitor that have exited
ExitedInSet(m) == Range(m.sub_processes) \cap m.exited

\* C33: in a pass of the monitor's loop every worker of its set that had
\* exited is removed from the set, decrement_running_workers is called
\* with its pid and one replacement is spawned: after the pass the set has
\* max_workers entries, none of them a worker that had exited when the
\* pass began, and no such pid is in worker_pids.
C33_ExitedReplaced ==
    [][PassStep =>
          /\ Len(monitor'.sub_processes) = SettingsRead(db).max_workers
          /\ Range(monitor'.sub_processes) \cap monitor.exited = {}
          /\ Range(SettingsRead(db').worker_pids) \cap monitor.exited = {}
      ]_vars
\* what does hold: the set keeps max_workers entries and the first worker
\* that had exited is replaced
C33_FirstReplaced ==
    [][PassStep =>
          /\ Len(monitor'.sub_processes) = SettingsRead(db).max_workers
          /\ LET first == CHOOSE i \in DOMAIN monitor.sub_processes :
                    /\ monitor.sub_processes[i] \in monitor.exited
                    /\ \A j \in 1..(i - 1) :
                          monitor.sub_processes[j] \notin monitor.exited
             IN  monitor.sub_processes[first]
                    \notin Range(monitor'.sub_processes)
      ]_vars

\* C34: register_task with a crontab stores the crontask whenever the
\* database has no crontask row of the function: a delayed task of the
\* same function (a row with an empty crontab) does not keep the crontask
\* from being stored.
C34_CrontaskStored ==
    [][(RegisterStep /\ lastOp'.task.crontab # "") =>
          LET f == lastOp'.task.function_name
              before == InterfaceDb
              after == IF hpc["h1"] = "import" THEN temporary' ELSE db'
          IN  RowsOf(before.tasks, f) \cap CrontaskRows(before.tasks) = {}
                 => Cardinality(RowsOf(after.tasks, f)
                                   \cap CrontaskRows(after.tasks)) = 1
      ]_vars
\* the other order: a delayed task of a function that has a crontask row
\* is stored
C34_DelayedStored ==
    [][(RegisterStep /\ lastOp'.task.crontab = "" /\ lastOp'.ret) =>
          LET f == lastOp'.task.function_name
              before == InterfaceDb
              after == IF hpc["h1"] = "import" THEN temporary' ELSE db'
          IN  Cardinality(RowsOf(after.tasks, f))
                 = Cardinality(RowsOf(before.tasks, f)) + 1
      ]_vars

\* ---- the day rule
\* get_next_day(next_hour) has returned to the caller that made the
\* scheduler
DayReturned == scheduler.pc = "day"

\* the next element of S after v, v itself if it may stay, the first
\* element of S if there is none after v
NextElement(S, v, stays) ==
    IF stays /\ v \in S THEN v
    ELSE IF \E x \in S : x > v THEN Min({x \in S : x > v})
    ELSE Min(S)

\* days are counted from the first of the month of prev: a day number d
\* that follows prev.day is day d, else it is day d of the next month
DayIndex(prev, d, stays) ==
    IF d > prev.day \/ (stays /\ d = prev.day) THEN d
    ELSE GetDaysPerMonth(prev.year, prev.month) + d

\* the day of the month of the day with that index
DayOfIndex(prev, i) ==
    IF i > GetDaysPerMonth(prev.year, prev.month)
    THEN i - GetDaysPerMonth(prev.year, prev.month) ELSE i

\* the weekday, as get_weekday counts, of the day with that index
WeekdayOfIndex(prev, i) == (GetWeekday(prev) + i - prev.day) % 7

\* the candidate of the days of the month, the candidate of the weekdays
CandidateOfDays(D, prev, stays) ==
    DayIndex(prev, NextElement(D, prev.day, stays), stays)
\* (the day of prev itself or the next day after it with a weekday in W)
CandidatesOfWeekdays(W, prev) ==
    {i \in prev.day..(prev.day + 7) :
        /\ WeekdayOfIndex(prev, i) \in W
        /\ \A j \in (prev.day + 1)..(i - 1) :
              WeekdayOfIndex(prev, j) \notin W}

\* if W is the full set the day returned is the next element of D
C35_NextOfDays ==
    LET s == scheduler
        D == Range(s.cron_parts.days)
    IN  (DayReturned /\ AllWeekdaysAllowed(s.cron_parts)) =>
           s.next_day = NextElement(D, s.previous_schedule.day,
                            s.next_hour > s.previous_schedule.hour)

\* if D is the full set and W is not, the day returned is the next day
\* whose weekday is in W
C35_NextOfWeekdays ==
    LET s == scheduler
        prev == s.previous_schedule
        W == Range(s.cron_parts.days_of_week)
    IN  (/\ DayReturned
         /\ ~AllWeekdaysAllowed(s.cron_parts)
         /\ AllDaysAllowed(s.cron_parts)) =>
           \E i \in CandidatesOfWeekdays(W, prev) :
              s.next_day = DayOfIndex(prev, i)

\* if both are restricted, loose mode returns the earlier of the two
\* candidates
C35_LooseEarlier ==
    LET s == scheduler
        prev == s.previous_schedule
        stays == s.next_hour > prev.hour
        D == Range(s.cron_parts.days)
        W == Range(s.cron_parts.days_of_week)
    IN  (/\ DayReturned
         /\ ~AllWeekdaysAllowed(s.cron_parts)
         /\ ~AllDaysAllowed(s.cron_parts)
         /\ ~s.strict_mode) =>
           \E i \in CandidatesOfWeekdays(W, prev) :
              s.next_day =
                 DayOfIndex(prev, Min({CandidateOfDays(D, prev, stays), i}))

\* if both are restricted, strict mode returns a day that is in D (its
\* weekday is looked at by get_adapted_schedule_for_valid_day_of_week)
C35_StrictOfDays ==
    LET s == scheduler
    IN  (/\ DayReturned
         /\ ~AllWeekdaysAllowed(s.cron_parts)
         /\ ~AllDaysAllowed(s.cron_parts)
         /\ s.strict_mode) =>
           s.next_day \in Range(s.cron_parts.days)

\* C35: the day rule with the days of the month D and the weekdays W. If W
\* is the full set the next day is the next element of D; if D is the full
\* set and W is not, it is the next day whose weekday is in W; if both are
\* restricted, loose mode (the default) returns the earlier of the two
\* candidates and strict mode a day that is in D.
C35_DayRule ==
    /\ C35_NextOfDays
    /\ C35_NextOfWeekdays
    /\ C35_LooseEarlier
    /\ C35_StrictOfDays

\* ---- the day within its month
\* get_next_month_and_year(next_day) has returned to the caller that had
\* the day from get_next_day
MonthReturned == scheduler.pc = "month"

\* C36: the day the scheduler returns, with the month and year it is
\* combined with, is a day of that month (1 <= day <= days of the month)
\* and a day the crontab allows (in D when only D is restricted): a day
\* beyond the end of the month is not made another day by subtracting the
\* length of the month.
C36_DayOfMonth ==
    LET s == scheduler
    IN  MonthReturned =>
           /\ 1 <= s.next_day
           /\ s.next_day <= GetDaysPerMonth(s.next_year, s.next_month)
           /\ (AllWeekdaysAllowed(s.cron_parts)
                  /\ ~AllDaysAllowed(s.cron_parts))
                 => s.next_day \in Range(s.cron_parts.days)
\* what does hold: the day is at least 1 and the month is one the crontab
\* allows
C36_MonthAllowed ==
    MonthReturned =>
       /\ 1 <= scheduler.next_day
       /\ scheduler.next_month \in Range(scheduler.cron_parts.months)

\* ---- the searches end
\* C37: the search for the month ends for every crontab and instant: it
\* returns an allowed month and year whose month has at least next_day
\* days, or it raises a ValueError after at most 10 000 iterations; the
\* same cap bounds the search of strict mode for a day with a valid
\* weekday.
C37_MonthSearch ==
    LET s == scheduler
    IN  /\ s.frame.n <= MAX_ADAPT_SCHEDULE_ITERATION
        /\ s.adapt <= MAX_ADAPT_SCHEDULE_ITERATION + 1
        /\ s.pc = "raised" => s.error # ""
        /\ MonthReturned =>
              /\ s.next_month \in Range(s.cron_parts.months)
              /\ s.next_year >= s.previous_schedule.year
              /\ s.next_day <= GetDaysPerMonth(s.next_year, s.next_month)
\* what does hold: the loops stay within the cap and the month returned
\* is an allowed one
C37_Capped ==
    LET s == scheduler
    IN  /\ s.frame.n <= MAX_ADAPT_SCHEDULE_ITERATION
        /\ s.adapt <= MAX_ADAPT_SCHEDULE_ITERATION + 1
        /\ s.pc = "raised" => s.error # ""
        /\ MonthReturned =>
              /\ s.next_month \in Range(s.cron_parts.months)
              /\ s.next_year >= s.previous_schedule.year
\* and each step of a loop counts its iteration
C37_Counts ==
    [][/\ (scheduler.pc = "search" /\ scheduler'.pc = "search")
             => scheduler'.frame.n = scheduler.frame.n + 1
       /\ (scheduler.pc \in {"search", "adapt"}
             /\ scheduler'.pc \in {"search", "adapt"})
             => \/ scheduler'.adapt = scheduler.adapt + 1
                \/ /\ scheduler'.adapt = scheduler.adapt
                   /\ scheduler'.frame.n >= scheduler.frame.n
                   /\ scheduler'.pc = "search"
      ]_vars

\* ---- the fields of a crontab
\* the values of a field written as pattern, as the grammar gives them
IsFieldOf(r, pattern, min_value, max_value) ==
    IF pattern.kind = "*"
    THEN /\ Len(r) = max_value - min_value + 1
         /\ \A i \in DOMAIN r : r[i] = min_value + i - 1
    ELSE IF pattern.kind = "*/n"
    THEN /\ Len(r) >= 1
         /\ \A i \in DOMAIN r : r[i] = min_value + (i - 1) * pattern.n
         /\ r[Len(r)] <= max_value
         /\ r[Len(r)] + pattern.n > max_value
    ELSE /\ \A i \in DOMAIN r : \A j \in DOMAIN r : i < j => r[i] < r[j]
         /\ \A v \in 0..99 :
               InSeq(r, v) <=>
                  \E k \in DOMAIN pattern.values :
                     LET atom == pattern.values[k]
                     IN  IF Len(atom) = 2
                         THEN atom[1] <= v /\ v <= atom[2]
                         ELSE v = atom[1]

DateOfDay(prev, day) ==
    IF day >= prev.day THEN [prev EXCEPT !.day = day]
    ELSE IF prev.month = 12
    THEN [prev EXCEPT !.year = @ + 1, !.month = 1, !.day = day]
    ELSE [prev EXCEPT !.month = @ + 1, !.day = day]

\* C39: all computations with weekdays use one numbering, Monday = 0:
\* get_weekday, the weekday arithmetic of get_next_day and the test in
\* get_adapted_schedule_for_valid_day_of_week give every date the same
\* number, so the day that the weekday arithmetic returns for the weekdays
\* W is a day that test accepts.
C39_OneNumbering ==
    LET s == scheduler
        prev == s.previous_schedule
        date == DateOfDay(prev, s.next_day)
    IN  (/\ DayReturned
         /\ ~AllWeekdaysAllowed(s.cron_parts)
         /\ AllDaysAllowed(s.cron_parts)) =>
           /\ GetWeekday(prev)
                 = CalendarWeekday(prev.year, prev.month, prev.day)
           /\ InSeq(s.cron_parts.days_of_week, GetWeekday(date))
           /\ InSeq(s.cron_parts.days_of_week,
                    CalendarWeekday(date.year, date.month, date.day))
\* what does hold: the day returned has a weekday of W as get_weekday
\* counts (Sunday = 0, Monday = 1), which is one more than the number of
\* calendar.weekday, modulo 7
C39_SundayIsZero ==
    LET s == scheduler
        prev == s.previous_schedule
        date == DateOfDay(prev, s.next_day)
    IN  (/\ DayReturned
         /\ ~AllWeekdaysAllowed(s.cron_parts)
         /\ AllDaysAllowed(s.cron_parts)) =>
           /\ GetWeekday(prev)
                 = (CalendarWeekday(prev.year, prev.month, prev.day) + 1) % 7
           /\ InSeq(s.cron_parts.days_of_week, GetWeekday(date))

\* the registrator is started with thread t after a stop(): another
\* thread was started before t
Restarted(t) ==
    /\ registrator.registration_thread = t
    /\ \E u \in Threads \ {t} : registrator.pc[u] # "none"

\* C40: after stop() followed by start(), the items register() accepts
\* are passed to register_task: one consumer thread is active and the
\* thread that start() created does not exit while the registrator is
\* started (the event set by the earlier stop() does not end it), so no
\* item stays on the queue of a started registrator without a thread.
C40_RestartedConsumes ==
    [][\A t \in Threads :
          (Restarted(t) /\ registrator'.registration_thread = t) =>
             /\ registrator'.pc[t] # "exited"
             /\ {u \in Threads :
                   registrator'.pc[u] \in {"get", "register"}} = {t}
      ]_vars
\* what does hold: the thread of a registrator that was started once
\* does not exit while the registrator is started
C40_FirstStays ==
    [][\A t \in Threads :
          (/\ registrator.registration_thread = t
           /\ ~Restarted(t)
           /\ registrator'.registration_thread = t) =>
             /\ registrator'.pc[t] # "exited"
             /\ {u \in Threads :
                   registrator'.pc[u] \in {"get", "register"}} = {t}
      ]_vars

====
